---- MODULE Spec2Model ----
(***************************************************************************)
(* joplinReplacer: the literal matcher (internal/replacer/matcher.go), the *)
(* batch orchestrator (internal/replacer/replacer.go) and the retrying     *)
(* API client (internal/api).                                              *)
(*                                                                         *)
(* Go strings are byte strings: a string is modelled as a sequence of      *)
(* bytes (0..255), offsets are 0-based as in the code, and case folding    *)
(* goes through UTF-8 decoding and encoding as strings.ToLower does.       *)
(***************************************************************************)
EXTENDS Integers, Sequences, FiniteSets, TLC

\* ------------------------------------------------------------------ bounds

\* Longest text (in runes) handed to the matcher.
MaxTextRunes == 3

\* Most notes handed to ProcessNotes, and the largest worker count.
MaxNotes == 2
MaxConcurrency == 2

\* Most notes in the runs that follow the retry loop attempt by attempt.
RetryMaxNotes == 1

\* ------------------------------------------------------- Go byte strings

\* s[lo:hi] of Go (0-based, hi exclusive); the caller checks the bounds.
Slice(s, lo, hi) == SubSeq(s, lo + 1, hi)

\* utf8.EncodeRune for code points below U+10000.
EncodeRune(r) ==
  IF r < 128 THEN <<r>>
  ELSE IF r < 2048 THEN <<192 + (r \div 64), 128 + (r % 64)>>
  ELSE <<224 + (r \div 4096), 128 + ((r \div 64) % 64), 128 + (r % 64)>>

IsCont(b) == b >= 128 /\ b <= 191

\* utf8.DecodeRuneInString(s[i:]): the rune and its width; an invalid or
\* truncated sequence decodes to (U+FFFD, 1), utf8.RuneError.  Four-byte forms do not
\* occur in the byte strings built here and decode as invalid.
DecodeRune(s, i) ==
  LET b0 == s[i + 1]
      n == Len(s) - i
  IN IF b0 < 128 THEN [rune |-> b0, width |-> 1]
     ELSE IF b0 >= 194 /\ b0 <= 223 /\ n >= 2 /\ IsCont(s[i + 2])
       THEN [rune |-> (b0 - 192) * 64 + (s[i + 2] - 128), width |-> 2]
     ELSE IF b0 >= 224 /\ b0 <= 239 /\ n >= 3 /\ IsCont(s[i + 2]) /\ IsCont(s[i + 3])
             /\ (b0 = 224 => s[i + 2] >= 160) /\ (b0 = 237 => s[i + 2] <= 159)
       THEN [rune |-> (b0 - 224) * 4096 + (s[i + 2] - 128) * 64 + (s[i + 3] - 128),
             width |-> 3]
     ELSE [rune |-> 65533, width |-> 1]

\* unicode.ToLower on the code points that occur here: ASCII letters, U+0130
\* (to 'i') and U+023A (to U+2C65); every other one is its own lower case.
ToLowerRune(r) ==
  IF r >= 65 /\ r <= 90 THEN r + 32
  ELSE IF r = 304 THEN 105
  ELSE IF r = 570 THEN 11365
  ELSE r

RECURSIVE MapLower(_, _)
\* strings.Map(unicode.ToLower, s[i:]): rune by rune, an invalid byte becoming
\* the three bytes of U+FFFD.
MapLower(s, i) ==
  IF i >= Len(s) THEN <<>>
  ELSE LET d == DecodeRune(s, i)
       IN EncodeRune(ToLowerRune(d.rune)) \o MapLower(s, i + d.width)

\* strings.ToLower.
ToLower(s) == MapLower(s, 0)

RECURSIVE IndexFrom(_, _, _)
\* The least j >= i with s[j:j+len(sub)] = sub, or -1.
IndexFrom(s, sub, i) ==
  IF i + Len(sub) > Len(s) THEN -1
  ELSE IF Slice(s, i, i + Len(sub)) = sub THEN i
  ELSE IndexFrom(s, sub, i + 1)

\* strings.Index(s, sub).
Index(s, sub) == IndexFrom(s, sub, 0)

RECURSIVE Concat(_)
\* The bytes of a sequence of runes.
Concat(rs) == IF rs = <<>> THEN <<>> ELSE EncodeRune(Head(rs)) \o Concat(Tail(rs))

\* ------------------------------------------------------- LiteralMatcher

\* Overlap-aware scan: resume one byte after the match's start.
ResumeAfterStart(actualStart, actualEnd) == actualStart + 1

\* matcher.go:64, start = actualEnd: where the scan resumes after a match.
ResumeAt(actualStart, actualEnd) == actualEnd

\* matcher.go:56, actualEnd := actualStart + len(m.pattern).
MatchEnd(actualStart, pat, searchPattern) == actualStart + Len(pat)

RECURSIVE FindLoop(_, _, _, _, _, _)
\* The loop of FindAllMatches (matcher.go:48-65).  status is "ok" when the
\* loop ends at the break, "panic" when a slice expression is out of range
\* (searchText[start:] or text[actualStart:actualEnd]), "loop" when the
\* pattern is empty: idx is 0 and start never moves, so the loop never ends.
FindLoop(text, searchText, pat, searchPattern, start, acc) ==
  IF searchPattern = <<>> THEN [status |-> "loop", matches |-> acc]
  ELSE IF start > Len(searchText) THEN [status |-> "panic", matches |-> acc]
  ELSE LET idx == Index(Slice(searchText, start, Len(searchText)), searchPattern)
       IN IF idx = -1 THEN [status |-> "ok", matches |-> acc]
          ELSE LET actualStart == start + idx
                   actualEnd == MatchEnd(actualStart, pat, searchPattern)
               IN IF actualEnd > Len(text) \/ actualStart > actualEnd
                    THEN [status |-> "panic", matches |-> acc]
                    ELSE FindLoop(text, searchText, pat, searchPattern,
                                  ResumeAt(actualStart, actualEnd),
                                  Append(acc, [Start |-> actualStart, End |-> actualEnd,
                                               Text |-> Slice(text, actualStart, actualEnd)]))

\* LiteralMatcher.FindAllMatches (matcher.go:38-68).
FindAllMatches(pat, cs, text) ==
  IF cs THEN FindLoop(text, text, pat, pat, 0, <<>>)
  ELSE FindLoop(text, ToLower(text), pat, ToLower(pat), 0, <<>>)

RECURSIVE ReplaceFrom(_, _, _, _)
\* strings.ReplaceAll(s, old, new) for a non-empty old: copy up to the next
\* occurrence at or after start, write new, resume after the occurrence.
ReplaceFrom(s, old, new, start) ==
  LET j == Index(Slice(s, start, Len(s)), old)
  IN IF j = -1 THEN Slice(s, start, Len(s))
     ELSE Slice(s, start, start + j) \o new \o ReplaceFrom(s, old, new, start + j + Len(old))

RECURSIVE InsertAtRunes(_, _, _)
\* strings.ReplaceAll(s, "", new): new before every rune and at the end.
InsertAtRunes(s, new, i) ==
  IF i >= Len(s) THEN new
  ELSE LET w == DecodeRune(s, i).width
       IN new \o Slice(s, i, i + w) \o InsertAtRunes(s, new, i + w)

ReplaceAll(s, old, new) ==
  IF old = <<>> THEN InsertAtRunes(s, new, 0) ELSE ReplaceFrom(s, old, new, 0)

RECURSIVE SpliceBackward(_, _, _, _)
\* matcher.go:81-84: for i := len(matches)-1; i >= 0; i-- { splice }.
\* i is the 1-based index of the match to apply.
SpliceBackward(res, matches, replacement, i) ==
  IF i < 1 THEN [status |-> "ok", text |-> res]
  ELSE LET m == matches[i]
       IN IF m.End > Len(res) THEN [status |-> "panic", text |-> res]
          ELSE SpliceBackward(Slice(res, 0, m.Start) \o replacement \o Slice(res, m.End, Len(res)),
                              matches, replacement, i - 1)

\* The order in which Replace applies the matches (matcher.go:80-84).
Splice(res, matches, replacement) == SpliceBackward(res, matches, replacement, Len(matches))

\* LiteralMatcher.Replace (matcher.go:71-87).
Replace(pat, cs, text, replacement) ==
  IF cs THEN [status |-> "ok", text |-> ReplaceAll(text, pat, replacement)]
  ELSE LET found == FindAllMatches(pat, cs, text)
       IN IF found.status # "ok" THEN [status |-> found.status, text |-> text]
          ELSE Splice(text, found.matches, replacement)

\* ------------------------------------------------------------------ state

VARIABLES
  \* runReplace (cmd/replace.go): its configuration, where it stands, what it
  \* has asked of the Joplin API, what it printed and how the process ended
  run,
  \* Replacer fields (replacer.go:36-43) and the matcher behind r.matcher
  pattern, caseSensitive, regex, replacement, dryRun, concurrency, delay,
  \* one scan, replace and second scan of a single text by the matcher
  mText, mpc, mFound, mReplaced, mSecond,
  \* what PrintPreview printed for that text and its matches
  preview,
  \* ProcessNotes: its argument, where it stands, and its *Result
  notes, pc, result,
  \* the context passed down from runReplace (replace.go:91): has it expired
  cancelled,
  \* performConcurrentUpdates: the two channels, the index of the next job to
  \* send, the WaitGroup counter, the goroutine that closes results
  jobs, jobsClosed, results, resultsClosed, nextJob, wg, closer,
  \* the worker goroutines: where each stands and its locals
  wk,
  \* history, per note ID: how many UpdateNote calls were started for it, what
  \* the call returned, what each httpClient.Do of the call gave back, how
  \* many backoff waits ran to their end and how long each was, how many
  \* times the call slept for the inter-update delay, and whether the context
  \* had expired when the call was started
  hist

cfgVars == <<pattern, caseSensitive, regex, replacement, dryRun, concurrency, delay>>
mVars == <<mText, mpc, mFound, mReplaced, mSecond, preview>>
chanVars == <<jobs, jobsClosed, results, resultsClosed>>
oVars == <<notes, pc, result, cancelled, chanVars, nextJob, wg, closer, wk, hist>>
vars == <<run, cfgVars, mVars, oVars>>

\* ------------------------------------------------------------ errors

\* An error value is its chain of messages, outermost first (fmt.Errorf with
\* %w wraps the error it is given); nil is the empty chain.
ErrNil == <<>>

\* ctx.Err() once the deadline of replace.go:91 has passed.
ErrDeadline == <<"context deadline exceeded">>

\* What httpClient.Do (part_001:92) can give back: a transport error, or a
\* response with a status code.  With the context expired Do fails with the
\* context's error and sends nothing.
DoOutcomes(ctxDone) ==
  IF ctxDone THEN {[err |-> <<"Put: context deadline exceeded">>, status |-> 0]}
  ELSE {[err |-> <<"Put: connection refused">>, status |-> 0]}
       \cup {[err |-> ErrNil, status |-> c] : c \in {200, 401, 403, 404, 500, 503}}

ServerError(status) ==
  IF status = 500 THEN <<"server error: 500">> ELSE <<"server error: 503">>

\* part_001:107.
ErrExhausted(lastErr) == <<"request failed after 3 attempts">> \o lastErr

\* The last error kept from the first failed attempt on.
KeepFirstErr(lastErr, err) == IF lastErr = ErrNil THEN err ELSE lastErr

\* part_001:94 and :100, lastErr = err.
SetLastErr(lastErr, err) == err

\* A response with a 4xx status counted as retryable too.
RetryableFrom400(o) == o.err # ErrNil \/ o.status >= 400

\* part_001:93-102: a transport error or a status >= 500 is retried.
Retryable(o) == o.err # ErrNil \/ o.status >= 500

\* part_001:69.
maxRetries == 3

\* part_001:70, in milliseconds.
baseDelay == 500

\* The same wait before every retry.
ConstantDelay(attempt) == baseDelay

\* part_001:75, baseDelay * time.Duration(1<<uint(attempt-1)), for the
\* 0-based attempt about to be made (attempt >= 1).
BackoffDelay(attempt) == baseDelay * 2^(attempt - 1)

\* One attempt more than maxRetries.
LoopRunsInclusive(attempt) == attempt <= maxRetries

\* part_001:73, the loop condition.
LoopRuns(attempt) == attempt < maxRetries

\* What doRequestWithRetry returned: nothing yet, a response, or an error.
NoRet == [kind |-> "none", status |-> 0, err |-> ErrNil]

\* api.UpdateNoteRequest (types.go:19-21) as UpdateNote fills it
\* (part_002:147-149): the members of the JSON object that is marshalled.
UpdateNoteRequest(newBody) == [Body |-> newBody]

\* The request that http.NewRequestWithContext builds (part_001:83) from the
\* endpoint and the body reader handed to doRequestWithRetry: its content is
\* what is unread of the buffer at that moment, nothing if nothing is.
Request(noteID, jsonData, unread) == [ID |-> noteID, json |-> jsonData, unread |-> unread]

\* The buffer after httpClient.Do (part_001:92) gave back outcome o.  The
\* request's Body reads from the buffer itself: a request that got a response
\* was written out and has drained it, a transport error can have come before
\* the body was written, while it was, or after, and a context already
\* expired fails Do before anything is read.
BufferAfter(unread, o, ctxDone) ==
  IF ctxDone THEN {unread}
  ELSE IF o.err = ErrNil \/ unread = "none" THEN {"none"}
  ELSE IF unread = "part" THEN {"part", "none"}
  ELSE {"all", "part", "none"}

\* UpdateNote after doRequestWithRetry has returned (part_002:158-177).
UpdateNoteResult(ret) ==
  IF ret.kind = "err" THEN <<"failed to update note">> \o ret.err
  ELSE IF ret.status = 401 \/ ret.status = 403
    THEN <<"authentication failed. Check your API token">>
  ELSE IF ret.status # 200 THEN <<"unexpected status code: 404">>
  ELSE ErrNil

\* Every result of a whole UpdateNote call (part_002:146-178), given whether
\* the context has expired: nil, the two status errors, and the wrapped
\* failures of doRequestWithRetry.
UpdateNoteErrs(ctxDone) ==
  IF ctxDone
    THEN {<<"failed to update note">> \o ErrDeadline,
          <<"failed to update note">> \o ErrExhausted(<<"Put: context deadline exceeded">>)}
    ELSE {ErrNil,
          <<"authentication failed. Check your API token">>,
          <<"unexpected status code: 404">>}
         \cup {<<"failed to update note">> \o ErrExhausted(e) :
                 e \in {<<"Put: connection refused">>, ServerError(500), ServerError(503)}}

\* ------------------------------------------------------------ RegexMatcher

\* The regular expressions followed here are written with literal bytes,
\* '.', capture groups and the flag groups (?i), (?s), (?-s), ... ; texts and
\* patterns are ASCII, so a rune is a byte.

\* No flag set: the state in which regexp.Compile starts.
NoFlags == [i |-> FALSE, s |-> FALSE]

RECURSIVE ParseFlags(_, _, _, _, _)
\* The flag group whose flags start at offset i, after "(?": the flags in
\* force after its ')'.  A '-' switches to clearing; a group without a flag
\* or with any other byte is a syntax error.
ParseFlags(p, i, flags, neg, seen) ==
  IF i >= Len(p) THEN [ok |-> FALSE, next |-> i, flags |-> flags]
  ELSE LET c == p[i + 1]
       IN IF c = 41 THEN [ok |-> seen, next |-> i + 1, flags |-> flags]
          ELSE IF c = 45 /\ ~neg THEN ParseFlags(p, i + 1, flags, TRUE, FALSE)
          ELSE IF c = 105 THEN ParseFlags(p, i + 1, [flags EXCEPT !.i = ~neg], neg, TRUE)
          ELSE IF c = 115 THEN ParseFlags(p, i + 1, [flags EXCEPT !.s = ~neg], neg, TRUE)
          ELSE [ok |-> FALSE, next |-> i, flags |-> flags]

\* A regexp that failed to compile, with the error of regexp.Compile.
SyntaxError(msg) == [err |-> <<msg>>, atoms |-> <<>>, groups |-> 0]

\* One element of a compiled expression.
Atom(kind, b, flags, group) ==
  [kind |-> kind, b |-> b, fold |-> flags.i, dotall |-> flags.s, group |-> group]

RECURSIVE ParseFrom(_, _, _, _, _, _)
\* regexp/syntax.Parse from offset i on: flags are the flags in force, stack
\* the open capture groups with the flags to restore at their ')', n the
\* number of capture groups so far.
ParseFrom(p, i, flags, stack, n, atoms) ==
  IF i >= Len(p)
    THEN IF stack = <<>> THEN [err |-> <<>>, atoms |-> atoms, groups |-> n]
         ELSE SyntaxError("error parsing regexp: missing closing )")
  ELSE LET c == p[i + 1]
       IN IF c = 40 /\ i + 1 < Len(p) /\ p[i + 2] = 63
            THEN LET f == ParseFlags(p, i + 2, flags, FALSE, FALSE)
                 IN IF f.ok THEN ParseFrom(p, f.next, f.flags, stack, n, atoms)
                    ELSE SyntaxError("error parsing regexp: invalid or unsupported Perl syntax")
          ELSE IF c = 40
            THEN ParseFrom(p, i + 1, flags, <<[flags |-> flags, group |-> n + 1]>> \o stack,
                           n + 1, Append(atoms, Atom("open", 0, NoFlags, n + 1)))
          ELSE IF c = 41
            THEN IF stack = <<>> THEN SyntaxError("error parsing regexp: unexpected )")
                 ELSE ParseFrom(p, i + 1, Head(stack).flags, Tail(stack), n,
                                Append(atoms, Atom("close", 0, NoFlags, Head(stack).group)))
          ELSE IF c = 46
            THEN ParseFrom(p, i + 1, flags, stack, n,
                           Append(atoms, Atom("dot", 0, [flags EXCEPT !.i = FALSE], 0)))
          ELSE ParseFrom(p, i + 1, flags, stack, n,
                         Append(atoms, Atom("lit", c, [flags EXCEPT !.s = FALSE], 0)))

\* regexp.Compile.
Compile(expr) == ParseFrom(expr, 0, NoFlags, <<>>, 0, <<>>)

\* No prefix in front of the pattern.
NoPrefix == <<>>

\* matcher.go:97, "(?s)".
DotAllPrefix == <<40, 63, 115, 41>>

\* matcher.go:100, "(?i)".
FoldPrefix == <<40, 63, 105, 41>>

\* The matcher behind r.matcher is a *LiteralMatcher, no *RegexMatcher.
NoRegex == [err |-> <<>>, atoms |-> <<>>, groups |-> -1]

\* matcher.go:95-111: the matcher (its regex field) and the error.
NewRegexMatcher(pat, cs) ==
  LET withDotAll == DotAllPrefix \o pat
      fullPattern == IF ~cs THEN FoldPrefix \o withDotAll ELSE withDotAll
      re == Compile(fullPattern)
  IN IF re.err # <<>> THEN [regex |-> NoRegex, err |-> re.err]
     ELSE [regex |-> re, err |-> <<>>]

\* Simple case folding of an ASCII byte.
LowerASCII(b) == IF b >= 65 /\ b <= 90 THEN b + 32 ELSE b

RECURSIVE MatchAt(_, _, _, _, _)
\* The match of atoms[k..] that starts at offset p of t, if there is one: its
\* end and the spans of the capture groups.
MatchAt(atoms, t, p, k, caps) ==
  IF k > Len(atoms) THEN [ok |-> TRUE, end |-> p, caps |-> caps]
  ELSE LET a == atoms[k]
       IN IF a.kind = "open"
            THEN MatchAt(atoms, t, p, k + 1, [caps EXCEPT ![a.group] = [Start |-> p, End |-> -1]])
          ELSE IF a.kind = "close"
            THEN MatchAt(atoms, t, p, k + 1, [caps EXCEPT ![a.group].End = p])
          ELSE IF p >= Len(t) THEN [ok |-> FALSE, end |-> p, caps |-> caps]
          ELSE IF a.kind = "dot"
            THEN IF a.dotall \/ t[p + 1] # 10 THEN MatchAt(atoms, t, p + 1, k + 1, caps)
                 ELSE [ok |-> FALSE, end |-> p, caps |-> caps]
          ELSE IF t[p + 1] = a.b \/ (a.fold /\ LowerASCII(t[p + 1]) = LowerASCII(a.b))
            THEN MatchAt(atoms, t, p + 1, k + 1, caps)
          ELSE [ok |-> FALSE, end |-> p, caps |-> caps]

RECURSIVE FindAllSubmatchIndex(_, _, _, _, _)
\* regexp's leftmost non-overlapping matches of re in t from offset pos on; an
\* empty match that abuts the match before it is dropped.
FindAllSubmatchIndex(re, t, pos, prevEnd, acc) ==
  IF pos > Len(t) THEN acc
  ELSE LET m == MatchAt(re.atoms, t, pos, 1,
                        [g \in 1..re.groups |-> [Start |-> -1, End |-> -1]])
       IN IF ~m.ok \/ (m.end = pos /\ pos = prevEnd)
            THEN FindAllSubmatchIndex(re, t, pos + 1, prevEnd, acc)
          ELSE FindAllSubmatchIndex(re, t, IF m.end = pos THEN pos + 1 ELSE m.end, m.end,
                                    Append(acc, [Start |-> pos, End |-> m.end, caps |-> m.caps]))

\* matcher.go:114-127, RegexMatcher.FindAllMatches.
RegexFindAllMatches(re, text) ==
  LET indices == FindAllSubmatchIndex(re, text, 0, -1, <<>>)
  IN [status |-> "ok",
      matches |-> [i \in 1..Len(indices) |->
                     [Start |-> indices[i].Start, End |-> indices[i].End,
                      Text |-> Slice(text, indices[i].Start, indices[i].End)]]]

\* A byte of a name in a replacement template: a letter, a digit or '_'.
IsNameByte(b) ==
  \/ b >= 48 /\ b <= 57
  \/ b >= 65 /\ b <= 90
  \/ b >= 97 /\ b <= 122
  \/ b = 95

RECURSIVE NameEnd(_, _)
\* The offset after the name that starts at offset i of s.
NameEnd(s, i) == IF i < Len(s) /\ IsNameByte(s[i + 1]) THEN NameEnd(s, i + 1) ELSE i

RECURSIVE NameNum(_, _, _)
\* The number a name denotes, -1 if it is not all digits.
NameNum(name, i, num) ==
  IF i > Len(name) THEN num
  ELSE IF name[i] < 48 \/ name[i] > 57 THEN -1
  ELSE NameNum(name, i + 1, num * 10 + name[i] - 48)

\* regexp's extract, on the template after a '$': the number of the group of
\* a leading name or {name} (-1 for a name that is no number), and the rest.
Extract(str) ==
  LET brace == str # <<>> /\ str[1] = 123
      from == IF brace THEN 1 ELSE 0
      to == NameEnd(str, from)
      name == Slice(str, from, to)
      num == IF name[1] = 48 /\ Len(name) > 1 THEN -1 ELSE NameNum(name, 1, 0)
  IN IF to = from THEN [ok |-> FALSE, num |-> -1, rest |-> str]
     ELSE IF brace /\ (to >= Len(str) \/ str[to + 1] # 125)
       THEN [ok |-> FALSE, num |-> -1, rest |-> str]
     ELSE [ok |-> TRUE, num |-> num,
           rest |-> Slice(str, IF brace THEN to + 1 ELSE to, Len(str))]

RECURSIVE Expand(_, _, _)
\* regexp's expand: the template with $name and ${name} replaced by the text
\* of the group, by nothing for a group the expression does not have.
Expand(template, src, m) ==
  LET at == Index(template, <<36>>)
  IN IF at < 0 THEN template
     ELSE LET before == Slice(template, 0, at)
              after == Slice(template, at + 1, Len(template))
          IN IF after # <<>> /\ after[1] = 36
               THEN before \o <<36>> \o Expand(Tail(after), src, m)
             ELSE LET x == Extract(after)
                  IN IF ~x.ok THEN before \o <<36>> \o Expand(after, src, m)
                     ELSE IF x.num = 0
                       THEN before \o Slice(src, m.Start, m.End) \o Expand(x.rest, src, m)
                     ELSE IF x.num \in DOMAIN m.caps /\ m.caps[x.num].Start >= 0
                       THEN before \o Slice(src, m.caps[x.num].Start, m.caps[x.num].End)
                              \o Expand(x.rest, src, m)
                     ELSE before \o Expand(x.rest, src, m)

RECURSIVE ReplaceAllFrom(_, _, _, _, _)
\* The text from offset pos on with the matches ms[i..] replaced.
ReplaceAllFrom(text, repl, ms, i, pos) ==
  IF i > Len(ms) THEN Slice(text, pos, Len(text))
  ELSE Slice(text, pos, ms[i].Start) \o Expand(repl, text, ms[i])
         \o ReplaceAllFrom(text, repl, ms, i + 1, ms[i].End)

\* matcher.go:130-132, RegexMatcher.Replace: regex.ReplaceAllString.
RegexReplace(re, text, repl) ==
  [status |-> "ok",
   text |-> ReplaceAllFrom(text, repl, FindAllSubmatchIndex(re, text, 0, -1, <<>>), 1, 0)]

\* matcher.go:30-35: any pattern gives a matcher, the empty one too.
NewLiteralMatcher(pat, cs) == [pattern |-> pat, caseSensitive |-> cs]

\* matcher.go:135-140: the fields of the matcher built (a *RegexMatcher has
\* regex alone, a *LiteralMatcher pattern and caseSensitive) and the error.
NewMatcher(pat, isRegex, cs) ==
  IF isRegex
    THEN LET built == NewRegexMatcher(pat, cs)
         IN [pattern |-> <<>>, caseSensitive |-> FALSE, regex |-> built.regex,
             err |-> built.err]
    ELSE LET built == NewLiteralMatcher(pat, cs)
         IN [pattern |-> built.pattern, caseSensitive |-> built.caseSensitive,
             regex |-> NoRegex, err |-> <<>>]

\* matcher.go:9-14, the Matcher interface: the call goes to the matcher that
\* NewMatcher built (matcher.go:135-140).
Matcher_FindAllMatches(text) ==
  IF regex # NoRegex THEN RegexFindAllMatches(regex, text)
  ELSE FindAllMatches(pattern, caseSensitive, text)

Matcher_Replace(text, repl) ==
  IF regex # NoRegex THEN RegexReplace(regex, text, repl)
  ELSE Replace(pattern, caseSensitive, text, repl)

\* ------------------------------------------------------ ProcessNotes

\* api.Note (types.go:4-10); the ID is the note's place in the input.
Note(i, body) ==
  [ID |-> i, Title |-> i + MaxNotes + 1, Body |-> body, ParentID |-> 0, UpdatedTime |-> 0]

\* Bodies of the notes: "b" and "aA".
NoteBodies == {<<98>>, <<97, 65>>}

RECURSIVE BodyLists(_)
BodyLists(n) ==
  IF n = 0 THEN {<<>>}
  ELSE LET shorter == BodyLists(n - 1)
       IN shorter \cup {Append(t, b) : t \in {u \in shorter : Len(u) = n - 1}, b \in NoteBodies}

NoteLists(n) == {[i \in 1..Len(bs) |-> Note(i, bs[i])] : bs \in BodyLists(n)}

NoNote == Note(0, <<>>)
NoJob == [Note |-> NoNote, Matches |-> <<>>]

\* &Result{NotesScanned: len(notes)} (replacer.go:59-61).
NewResult(ns) ==
  [NotesScanned |-> Len(ns), NotesWithMatches |-> 0, TotalMatches |-> 0,
   NotesUpdated |-> 0, FailedUpdates |-> <<>>, MatchedNotes |-> <<>>]

RECURSIVE ScanLoopNewestFirst(_, _, _)
\* A scan loop that puts every matched note in front of the ones before it.
ScanLoopNewestFirst(ns, i, res) ==
  IF i > Len(ns) THEN [status |-> "ok", result |-> res]
  ELSE LET found == Matcher_FindAllMatches(ns[i].Body)
       IN IF found.status # "ok" THEN [status |-> found.status, result |-> res]
          ELSE IF Len(found.matches) > 0
            THEN ScanLoopNewestFirst(ns, i + 1,
                   [res EXCEPT !.NotesWithMatches = @ + 1,
                               !.TotalMatches = @ + Len(found.matches),
                               !.MatchedNotes = <<[Note |-> ns[i],
                                                   Matches |-> found.matches]>> \o @])
            ELSE ScanLoopNewestFirst(ns, i + 1, res)

RECURSIVE ScanLoop(_, _, _)
\* The scan loop (replacer.go:64-74) from note i on; a panic of the matcher
\* ends the process.
ScanLoop(ns, i, res) ==
  IF i > Len(ns) THEN [status |-> "ok", result |-> res]
  ELSE LET found == Matcher_FindAllMatches(ns[i].Body)
       IN IF found.status # "ok" THEN [status |-> found.status, result |-> res]
          ELSE IF Len(found.matches) > 0
            THEN ScanLoop(ns, i + 1,
                   [res EXCEPT !.NotesWithMatches = @ + 1,
                               !.TotalMatches = @ + Len(found.matches),
                               !.MatchedNotes = Append(@, [Note |-> ns[i],
                                                           Matches |-> found.matches])])
            ELSE ScanLoop(ns, i + 1, res)

\* A worker goroutine that has not been started.  buf is how much of the
\* bytes.Buffer made for the worker's UpdateNote call (part_002:158) is still
\* unread: "all", "part" or "none" of the JSON data.
NoWorker ==
  [pc |-> "none", job |-> NoJob, newBody |-> <<>>, err |-> ErrNil,
   rpc |-> "idle", attempt |-> 0, lastErr |-> ErrNil, ret |-> NoRet, buf |-> "all"]

Workers == 1..MaxConcurrency

OrchestratorIdle ==
  /\ notes = <<>>
  /\ pc = "idle"
  /\ result = NewResult(<<>>)
  /\ cancelled = FALSE
  /\ jobs = <<>> /\ jobsClosed = FALSE
  /\ results = <<>> /\ resultsClosed = FALSE
  /\ nextJob = 1
  /\ wg = 0
  /\ closer = "none"
  /\ wk = [w \in Workers |-> NoWorker]
  /\ hist = <<>>

\* No result of FindAllMatches, of Replace, yet.
NoFound == [status |-> "none", matches |-> <<>>]
NoText == [status |-> "none", text |-> <<>>]

\* Nothing printed by PrintPreview.
NoPreview == [kind |-> "none", notes |-> <<>>]

MatcherIdle ==
  /\ mText = <<>>
  /\ mpc = "off"
  /\ mFound = NoFound
  /\ mReplaced = NoText
  /\ mSecond = NoFound
  /\ preview = NoPreview

\* config.Config (part_002:188-209), the fields runReplace acts on; the zero
\* value.
NoConfig ==
  [Host |-> "", Port |-> 0, Token |-> "", Timeout |-> 0,
   SearchPattern |-> <<>>, Replacement |-> <<>>, IsRegex |-> FALSE,
   CaseSensitive |-> FALSE, DryRun |-> FALSE, Concurrency |-> 0, Delay |-> 0]

\* Nothing printed.
NoSummary ==
  [kind |-> "", scanned |-> 0, matches |-> 0, notes |-> 0, updated |-> 0, failed |-> <<>>]

\* runReplace is not running: ProcessNotes was called on its own.
NoRun ==
  [pc |-> "off", cfg |-> NoConfig, pings |-> 0, fetches |-> 0, stderr |-> <<>>,
   stdout |-> NoSummary, exit |-> -1]

\* The result of an UpdateNote call that has not returned.
Pending == <<"pending">>

NoHist ==
  [started |-> 0, outcome |-> Pending, log |-> <<>>, waits |-> 0, slept |-> 0,
   late |-> FALSE, waited |-> <<>>]

\* NewReplacer (replacer.go:46-55) on a case-insensitive literal matcher for
\* "a", the tool's default mode (part_002:250), with replacement "b" and the
\* default delay of 100ms (part_002:255), and the call of ProcessNotes
\* (replace.go:156-157).  Config.Validate has
\* admitted the concurrency (part_002:233-235).
InitWith(maxNotes, concs) ==
  /\ pattern = <<97>>
  /\ caseSensitive = FALSE
  /\ regex = NoRegex
  /\ replacement = <<98>>
  /\ dryRun \in BOOLEAN
  /\ concurrency \in concs
  /\ delay = 100
  /\ run = NoRun
  /\ MatcherIdle
  /\ notes \in NoteLists(maxNotes)
  /\ pc = "scan"
  /\ result = NewResult(<<>>)
  /\ cancelled = FALSE
  /\ jobs = <<>> /\ jobsClosed = FALSE
  /\ results = <<>> /\ resultsClosed = FALSE
  /\ nextJob = 1
  /\ wg = 0
  /\ closer = "none"
  /\ wk = [w \in Workers |-> NoWorker]
  /\ hist = [i \in 1..Len(notes) |-> NoHist]

Init == InitWith(MaxNotes, 1..MaxConcurrency)

\* replacer.go:59-74: the scan phase.
Scan ==
  /\ pc = "scan"
  /\ LET scan == ScanLoop(notes, 1, NewResult(notes))
     IN /\ result' = scan.result
        /\ pc' = IF scan.status = "ok" THEN "scanned" ELSE "panicked"
  /\ UNCHANGED <<run, cfgVars, mVars, notes, cancelled, chanVars, nextJob, wg, closer, wk, hist>>

\* Updates for every mode.
NeverSkipsUpdates(r_dryRun) == FALSE

\* replacer.go:77, if r.dryRun.
SkipsUpdates(r_dryRun) == r_dryRun

\* replacer.go:77-79: dry-run returns the result of the scan.
DryRunReturn ==
  /\ pc = "scanned"
  /\ SkipsUpdates(dryRun)
  /\ pc' = "returned"
  /\ UNCHANGED <<run, cfgVars, mVars, notes, result, cancelled, chanVars, nextJob, wg, closer, wk, hist>>

\* replacer.go:87-90: nothing matched, nothing to update.
NoMatchReturn ==
  /\ pc = "scanned"
  /\ ~SkipsUpdates(dryRun)
  /\ Len(result.MatchedNotes) = 0
  /\ pc' = "returned"
  /\ UNCHANGED <<run, cfgVars, mVars, notes, result, cancelled, chanVars, nextJob, wg, closer, wk, hist>>

\* One worker for every matched note.
PoolSizePerNote(r_concurrency, totalNotes) == totalNotes

\* replacer.go:98, the bound of the loop that starts the workers.
PoolSize(r_concurrency, totalNotes) == r_concurrency

\* replacer.go:92-104: the two channels, and r.concurrency workers, each
\* counted in the WaitGroup and standing at its range over jobs.
StartWorkers ==
  /\ pc = "scanned"
  /\ ~SkipsUpdates(dryRun)
  /\ Len(result.MatchedNotes) > 0
  /\ jobs' = <<>> /\ jobsClosed' = FALSE
  /\ results' = <<>> /\ resultsClosed' = FALSE
  /\ LET n == PoolSize(concurrency, Len(result.MatchedNotes))
     IN /\ wk' = [w \in Workers |-> IF w <= n THEN [NoWorker EXCEPT !.pc = "recv"]
                                                ELSE NoWorker]
        /\ wg' = Cardinality({w \in Workers : w <= n})
  /\ nextJob' = 1
  /\ pc' = "send"
  /\ UNCHANGED <<run, cfgVars, mVars, notes, result, cancelled, closer, hist>>

\* replacer.go:107, the i-th element of the range over result.MatchedNotes.
JobAt(res, i) == res.MatchedNotes[i]

\* replacer.go:107-109: jobs <- noteMatch; the channel holds totalNotes
\* elements, so the send never blocks.
SendJob ==
  /\ pc = "send"
  /\ nextJob <= Len(result.MatchedNotes)
  /\ jobs' = Append(jobs, JobAt(result, nextJob))
  /\ nextJob' = nextJob + 1
  /\ UNCHANGED <<run, cfgVars, mVars, notes, pc, result, cancelled, jobsClosed, results,
                 resultsClosed, wg, closer, wk, hist>>

\* A producer that goes on to collect without closing jobs.
CloseJobsForgotten ==
  /\ pc = "send"
  /\ nextJob > Len(result.MatchedNotes)
  /\ closer' = "wait"
  /\ pc' = "collect"
  /\ UNCHANGED <<run, cfgVars, mVars, notes, result, cancelled, chanVars, nextJob, wg, wk,
                 hist>>

\* replacer.go:110-116: close(jobs), then the goroutine that waits for the
\* workers is started and the collecting loop entered.
CloseJobs ==
  /\ pc = "send"
  /\ nextJob > Len(result.MatchedNotes)
  /\ jobsClosed' = TRUE
  /\ closer' = "wait"
  /\ pc' = "collect"
  /\ UNCHANGED <<run, cfgVars, mVars, notes, result, cancelled, jobs, results, resultsClosed,
                 nextJob, wg, wk, hist>>

\* A closing goroutine that closes results without waiting for the workers.
CloseResultsWithoutWaiting ==
  /\ closer = "wait"
  /\ resultsClosed' = TRUE
  /\ closer' = "done"
  /\ UNCHANGED <<run, cfgVars, mVars, notes, pc, result, cancelled, jobs, jobsClosed, results,
                 nextJob, wg, wk, hist>>

\* replacer.go:113-116: wg.Wait(); close(results).
CloseResults ==
  /\ closer = "wait"
  /\ wg = 0
  /\ resultsClosed' = TRUE
  /\ closer' = "done"
  /\ UNCHANGED <<run, cfgVars, mVars, notes, pc, result, cancelled, jobs, jobsClosed, results,
                 nextJob, wg, wk, hist>>

\* Every outcome counted as an update.
FoldCountingAll(res, updateRes) ==
  IF updateRes.err # ErrNil
    THEN [res EXCEPT !.NotesUpdated = @ + 1,
                     !.FailedUpdates = Append(@, [NoteID |-> updateRes.noteID,
                                                  NoteTitle |-> updateRes.noteTitle,
                                                  Error |-> updateRes.err])]
    ELSE [res EXCEPT !.NotesUpdated = @ + 1]

\* A fold that takes the note of the outcome out of MatchedNotes.
FoldDroppingTheNote(res, updateRes) ==
  LET kept == SelectSeq(res.MatchedNotes, LAMBDA nm : nm.Note.ID # updateRes.noteID)
  IN IF updateRes.err # ErrNil
       THEN [res EXCEPT !.MatchedNotes = kept,
                        !.FailedUpdates = Append(@, [NoteID |-> updateRes.noteID,
                                                     NoteTitle |-> updateRes.noteTitle,
                                                     Error |-> updateRes.err])]
       ELSE [res EXCEPT !.MatchedNotes = kept, !.NotesUpdated = @ + 1]

\* replacer.go:122-130: one outcome folded into the result.
Fold(res, updateRes) ==
  IF updateRes.err # ErrNil
    THEN [res EXCEPT !.FailedUpdates = Append(@, [NoteID |-> updateRes.noteID,
                                                  NoteTitle |-> updateRes.noteTitle,
                                                  Error |-> updateRes.err])]
    ELSE [res EXCEPT !.NotesUpdated = @ + 1]

\* replacer.go:120-137: one iteration of the range over results.
Collect ==
  /\ pc = "collect"
  /\ results # <<>>
  /\ result' = Fold(result, Head(results))
  /\ results' = Tail(results)
  /\ UNCHANGED <<run, cfgVars, mVars, notes, pc, cancelled, jobs, jobsClosed, resultsClosed,
                 nextJob, wg, closer, wk, hist>>

\* replacer.go:120 and :143: results is closed and drained, the loop ends
\* and the result is returned.
CollectReturn ==
  /\ pc = "collect"
  /\ results = <<>>
  /\ resultsClosed
  /\ pc' = "returned"
  /\ UNCHANGED <<run, cfgVars, mVars, notes, result, cancelled, chanVars, nextJob, wg, closer,
                 wk, hist>>

\* The deadline of the context (replace.go:91) passes while ProcessNotes runs.
Cancel ==
  /\ pc \in {"scan", "scanned", "send", "collect"}
  /\ ~cancelled
  /\ cancelled' = TRUE
  /\ UNCHANGED <<run, cfgVars, mVars, notes, pc, result, chanVars, nextJob, wg, closer, wk,
                 hist>>

\* ------------------------------------------------------- updateWorker

\* replacer.go:155-157: a job is received, the new body computed and
\* UpdateNote called, which enters doRequestWithRetry (part_002:158).
WorkerRecv(w) ==
  /\ wk[w].pc = "recv"
  /\ jobs # <<>>
  /\ LET job == Head(jobs)
         replaced == Matcher_Replace(job.Note.Body, replacement)
     IN /\ wk' = [wk EXCEPT ![w] = [NoWorker EXCEPT
                    !.pc = IF replaced.status = "ok" THEN "update" ELSE "panicked",
                    !.job = job,
                    !.newBody = replaced.text,
                    !.rpc = "loop"]]
        /\ hist' = [hist EXCEPT ![job.Note.ID].started = @ + 1,
                                ![job.Note.ID].late = cancelled]
  /\ jobs' = Tail(jobs)
  /\ UNCHANGED <<run, cfgVars, mVars, notes, pc, result, cancelled, jobsClosed, results,
                 resultsClosed, nextJob, wg, closer>>

\* replacer.go:155 and :101: jobs is closed and drained, the range ends, the
\* worker returns and the deferred wg.Done() runs.
WorkerExit(w) ==
  /\ wk[w].pc = "recv"
  /\ jobs = <<>>
  /\ jobsClosed
  /\ wk' = [wk EXCEPT ![w].pc = "done"]
  /\ wg' = wg - 1
  /\ UNCHANGED <<run, cfgVars, mVars, notes, pc, result, cancelled, chanVars, nextJob, closer,
                 hist>>

\* A worker that returns after a failed update.
WorkerStopsOnError(err) == err = ErrNil

\* replacer.go:155-163: the loop goes on to the next job whatever err is.
WorkerContinues(err) == TRUE

\* part_002:173-175: UpdateNote sleeps for the delay on the one path that
\* reaches these lines, the 200 response; every error has returned before.
Sleeps(e, d) == e = ErrNil /\ d > 0

\* replacer.go:157-162: UpdateNote has returned e; results <- updateResult{...}
\* (the channel holds totalNotes elements, so the send never blocks), and the
\* worker is back at its range over jobs.
Finish(w, e) ==
  /\ results' = Append(results, [noteID |-> wk[w].job.Note.ID,
                                 noteTitle |-> wk[w].job.Note.Title,
                                 err |-> e])
  /\ hist' = [hist EXCEPT ![wk[w].job.Note.ID].outcome = e,
                          ![wk[w].job.Note.ID].slept = IF Sleeps(e, delay) THEN @ + 1 ELSE @]
  /\ IF WorkerContinues(e)
       THEN /\ wk' = [wk EXCEPT ![w] = [NoWorker EXCEPT !.pc = "recv"]]
            /\ wg' = wg
       ELSE /\ wk' = [wk EXCEPT ![w] = [NoWorker EXCEPT !.pc = "done"]]
            /\ wg' = wg - 1
  /\ UNCHANGED <<run, cfgVars, mVars, notes, pc, result, cancelled, jobs, jobsClosed,
                 resultsClosed, nextJob, closer>>

\* A whole UpdateNote call as one step (part_002:146-178), then the send of
\* its outcome.
UpdateNote(w) ==
  /\ wk[w].pc = "update"
  /\ wk[w].rpc = "loop" /\ wk[w].attempt = 0
  /\ \E e \in UpdateNoteErrs(cancelled) : Finish(w, e)

Next ==
  \/ Scan \/ DryRunReturn \/ NoMatchReturn \/ StartWorkers \/ SendJob \/ CloseJobs
  \/ CloseResults \/ Collect \/ CollectReturn \/ Cancel
  \/ \E w \in Workers : WorkerRecv(w) \/ WorkerExit(w) \/ UpdateNote(w)

Spec == Init /\ [][Next]_vars

\* ------------------------------------------- doRequestWithRetry, by attempt

\* part_001:74-81: before every attempt but the first, the select between
\* the backoff timer and ctx.Done().  The timer can always have fired;
\* ctx.Done() is ready once the context has expired, and with both ready the
\* select takes either.
RetryBackoff(w) ==
  /\ wk[w].pc = "update"
  /\ wk[w].rpc = "loop"
  /\ LoopRuns(wk[w].attempt)
  /\ wk[w].attempt > 0
  /\ \/ /\ wk' = [wk EXCEPT ![w].rpc = "request"]
        /\ hist' = [hist EXCEPT ![wk[w].job.Note.ID].waits = @ + 1,
                                ![wk[w].job.Note.ID].waited =
                                   Append(@, BackoffDelay(wk[w].attempt))]
     \/ /\ cancelled
        /\ wk' = [wk EXCEPT ![w].rpc = "returned",
                            ![w].ret = [kind |-> "err", status |-> 0, err |-> ErrDeadline]]
        /\ hist' = hist
  /\ UNCHANGED <<run, cfgVars, mVars, notes, pc, result, cancelled, chanVars, nextJob, wg, closer>>

\* part_001:83-104: one attempt.  A transport error or a status >= 500 is
\* kept in lastErr and the loop continues; any other response is returned.
RetryRequest(w) ==
  /\ wk[w].pc = "update"
  /\ \/ wk[w].rpc = "request"
     \/ wk[w].rpc = "loop" /\ wk[w].attempt = 0 /\ LoopRuns(wk[w].attempt)
  /\ \E o \in DoOutcomes(cancelled) : \E left \in BufferAfter(wk[w].buf, o, cancelled) :
       /\ hist' = [hist EXCEPT ![wk[w].job.Note.ID].log =
                     Append(@, [err |-> o.err, status |-> o.status,
                                sent |-> Request(wk[w].job.Note.ID,
                                                 UpdateNoteRequest(wk[w].newBody),
                                                 wk[w].buf)])]
       /\ IF Retryable(o)
            THEN wk' = [wk EXCEPT
                   ![w].lastErr = SetLastErr(@, IF o.err # ErrNil THEN o.err
                                                ELSE ServerError(o.status)),
                   ![w].attempt = @ + 1,
                   ![w].rpc = "loop",
                   ![w].buf = left]
            ELSE wk' = [wk EXCEPT
                   ![w].ret = [kind |-> "resp", status |-> o.status, err |-> ErrNil],
                   ![w].rpc = "returned",
                   ![w].buf = left]
  /\ UNCHANGED <<run, cfgVars, mVars, notes, pc, result, cancelled, chanVars, nextJob, wg, closer>>

\* part_001:73 and :107: the loop ends after maxRetries failed attempts.
RetryExhausted(w) ==
  /\ wk[w].pc = "update"
  /\ wk[w].rpc = "loop"
  /\ ~LoopRuns(wk[w].attempt)
  /\ wk' = [wk EXCEPT ![w].rpc = "returned",
                      ![w].ret = [kind |-> "err", status |-> 0,
                                  err |-> ErrExhausted(wk[w].lastErr)]]
  /\ UNCHANGED <<run, cfgVars, mVars, notes, pc, result, cancelled, chanVars, nextJob, wg,
                 closer, hist>>

\* part_002:158-177 and replacer.go:158-162: UpdateNote turns what
\* doRequestWithRetry returned into its error, and the worker sends it.
UpdateNoteReturn(w) ==
  /\ wk[w].pc = "update"
  /\ wk[w].rpc = "returned"
  /\ Finish(w, UpdateNoteResult(wk[w].ret))

RetryInit == InitWith(RetryMaxNotes, {1})

RetryNext ==
  \/ Scan \/ DryRunReturn \/ NoMatchReturn \/ StartWorkers \/ SendJob \/ CloseJobs
  \/ CloseResults \/ Collect \/ CollectReturn \/ Cancel
  \/ \E w \in Workers :
       \/ WorkerRecv(w) \/ WorkerExit(w)
       \/ RetryBackoff(w) \/ RetryRequest(w) \/ RetryExhausted(w) \/ UpdateNoteReturn(w)

RetrySpec == RetryInit /\ [][RetryNext]_vars

\* ------------------------------------------------------------ runReplace

\* Only a concurrency above 20 refused.
ConcurrencyAbove20(c) == c > 20

\* part_002:233, c.Concurrency < 1 || c.Concurrency > 20.
ConcurrencyOutOfRange(c) == c < 1 \/ c > 20

\* Config.Validate (part_002:212-242): the first check that fails gives the
\* error.
Validate(c) ==
  IF c.Token = "" THEN <<"API token is required">>
  ELSE IF c.SearchPattern = <<>> THEN <<"search pattern is required">>
  ELSE IF c.Host = "" THEN <<"host is required">>
  ELSE IF c.Port <= 0 \/ c.Port > 65535 THEN <<"port must be between 1 and 65535">>
  ELSE IF c.Timeout <= 0 THEN <<"timeout must be positive">>
  ELSE IF ConcurrencyOutOfRange(c.Concurrency)
    THEN <<"concurrency must be between 1 and 20">>
  ELSE IF c.Delay < 0 THEN <<"delay must be non-negative">>
  ELSE ErrNil

\* config.NewConfig (part_002:245-257) with the timeout of replace.go:78 in
\* seconds and the delay in milliseconds.
NewConfig ==
  [NoConfig EXCEPT !.Host = "localhost", !.Port = 41184, !.Timeout = 30,
                   !.Concurrency = 5, !.Delay = 100]

\* The configurations runReplace is started with (replace.go:60-79): with and
\* without a token, the patterns "", "a" and "a(", literal or regex, the
\* replacement "b", and concurrencies and delays inside and outside of what
\* Validate admits.
Configs ==
  {[NewConfig EXCEPT !.Token = t, !.SearchPattern = p, !.Replacement = <<98>>,
                     !.IsRegex = isRegex, !.DryRun = dry, !.Concurrency = c, !.Delay = d] :
     t \in {"", "token"}, p \in {<<>>, <<97>>, <<97, 40>>}, isRegex \in BOOLEAN,
     dry \in BOOLEAN, c \in {0, 21} \cup (1..MaxConcurrency), d \in {-1, 0, 100}}

\* fmt.Fprintf(os.Stderr, ...) and os.Exit(code).
Fail(r, msg, code) == [r EXCEPT !.pc = "exited", !.stderr = msg, !.exit = code]

\* What Ping (part_001:32-65) returns.
PingErrs == {ErrNil, <<"authentication failed. Check your API token">>}

\* GetResultSummary (replacer.go:167-188): what the text reports.
GetResultSummary(res, r_dryRun) ==
  IF res.NotesWithMatches = 0
    THEN [NoSummary EXCEPT !.kind = "No matches found in any notes"]
  ELSE IF r_dryRun
    THEN [NoSummary EXCEPT !.kind = "DRY-RUN MODE: No changes were made",
                           !.scanned = res.NotesScanned,
                           !.matches = res.TotalMatches,
                           !.notes = res.NotesWithMatches]
  ELSE [NoSummary EXCEPT !.kind = "Successfully updated",
                         !.scanned = res.NotesScanned,
                         !.matches = res.TotalMatches,
                         !.notes = res.NotesWithMatches,
                         !.updated = res.NotesUpdated,
                         !.failed = [k \in 1..Len(res.FailedUpdates) |->
                                       [NoteTitle |-> res.FailedUpdates[k].NoteTitle,
                                        NoteID |-> res.FailedUpdates[k].NoteID,
                                        Error |-> res.FailedUpdates[k].Error]]]

\* The process ends with status 0 whatever failed.
ExitCodeZero(res) == 0

\* replace.go:174-176: os.Exit(1) if an update failed, else the normal end.
ExitCode(res) == IF Len(res.FailedUpdates) > 0 THEN 1 ELSE 0

RunInit ==
  /\ \E c \in Configs : run = [NoRun EXCEPT !.pc = "validate", !.cfg = c]
  /\ pattern = <<>>
  /\ caseSensitive = FALSE
  /\ regex = NoRegex
  /\ replacement = <<>>
  /\ dryRun = FALSE
  /\ concurrency = 0
  /\ delay = 0
  /\ MatcherIdle
  /\ OrchestratorIdle

\* replace.go:82-92: Validate; an error ends the process with status 1.
RunValidate ==
  /\ run.pc = "validate"
  /\ LET err == Validate(run.cfg)
     IN run' = IF err # ErrNil THEN Fail(run, <<"Configuration error">> \o err, 1)
               ELSE [run EXCEPT !.pc = "ping"]
  /\ UNCHANGED <<cfgVars, mVars, oVars>>

\* replace.go:99-104: Ping; an error ends the process with status 1.
RunPing ==
  /\ run.pc = "ping"
  /\ \E err \in PingErrs :
       run' = IF err # ErrNil THEN Fail([run EXCEPT !.pings = @ + 1], <<"Error">> \o err, 1)
              ELSE [run EXCEPT !.pings = @ + 1, !.pc = "fetch"]
  /\ UNCHANGED <<cfgVars, mVars, oVars>>

\* replace.go:107-134: the notes are fetched, all of them for a regex and
\* those the server's search gives for a literal; an error ends the process
\* with status 1, no note at all ends it normally.
RunFetch ==
  /\ run.pc = "fetch"
  /\ \/ /\ run' = Fail([run EXCEPT !.fetches = @ + 1],
                       <<"Failed to fetch notes", "connection refused">>, 1)
        /\ notes' = notes
     \/ \E ns \in NoteLists(MaxNotes) :
          /\ notes' = ns
          /\ run' = IF Len(ns) = 0
                      THEN [run EXCEPT !.fetches = @ + 1, !.pc = "exited", !.exit = 0,
                              !.stdout = [NoSummary EXCEPT
                                            !.kind = "No notes found matching the search criteria"]]
                      ELSE [run EXCEPT !.fetches = @ + 1, !.pc = "matcher"]
  /\ UNCHANGED <<cfgVars, mVars, pc, result, cancelled, chanVars, nextJob, wg, closer, wk,
                 hist>>

\* replace.go:145-149: NewMatcher; an error ends the process with status 1.
RunNewMatcher ==
  /\ run.pc = "matcher"
  /\ LET built == NewMatcher(run.cfg.SearchPattern, run.cfg.IsRegex, run.cfg.CaseSensitive)
     IN IF built.err # ErrNil
          THEN /\ run' = Fail(run, <<"Invalid pattern">> \o built.err, 1)
               /\ UNCHANGED <<pattern, caseSensitive, regex>>
          ELSE /\ run' = [run EXCEPT !.pc = "replacer"]
               /\ pattern' = built.pattern
               /\ caseSensitive' = built.caseSensitive
               /\ regex' = built.regex
  /\ UNCHANGED <<replacement, dryRun, concurrency, delay, mVars, oVars>>

\* replace.go:156-157: NewReplacer (replacer.go:46-55) and the call of
\* ProcessNotes on the notes fetched.
RunProcessNotes ==
  /\ run.pc = "replacer"
  /\ replacement' = run.cfg.Replacement
  /\ dryRun' = run.cfg.DryRun
  /\ concurrency' = run.cfg.Concurrency
  /\ delay' = run.cfg.Delay
  /\ run' = [run EXCEPT !.pc = "process"]
  /\ pc' = "scan"
  /\ hist' = [i \in 1..Len(notes) |-> NoHist]
  /\ UNCHANGED <<pattern, caseSensitive, regex, mVars, notes, result, cancelled, chanVars,
                 nextJob, wg, closer, wk>>

\* replace.go:158-176: ProcessNotes has returned (its error is always nil);
\* the summary is printed and the process ends.
RunSummary ==
  /\ run.pc = "process"
  /\ pc = "returned"
  /\ run' = [run EXCEPT !.pc = "exited",
                        !.stdout = GetResultSummary(result, run.cfg.DryRun),
                        !.exit = ExitCode(result)]
  /\ UNCHANGED <<cfgVars, mVars, oVars>>

RunNext ==
  \/ RunValidate \/ RunPing \/ RunFetch \/ RunNewMatcher \/ RunProcessNotes \/ RunSummary
  \/ Next

RunSpec == RunInit /\ [][RunNext]_vars

\* ------------------------------------------- orchestrator claims

\* The notes of the input in which the matcher finds a match.
MatchedIDs ==
  {i \in 1..Len(notes) :
     Len(Matcher_FindAllMatches(notes[i].Body).matches) > 0}

RECURSIVE SumMatches(_)
\* The number of matches in notes[1..i].
SumMatches(i) ==
  IF i = 0 THEN 0
  ELSE Len(Matcher_FindAllMatches(notes[i].Body).matches) + SumMatches(i - 1)

\* Five documents of which the second and the fourth match.
FiveNotes == [i \in 1..5 |-> Note(i, IF i \in {2, 4} THEN <<97, 65>> ELSE <<98>>)]

\* The scan of FiveNotes gives 5 / 2 / 0 / empty.
FiveNotesExample ==
  LET r == ScanLoop(FiveNotes, 1, NewResult(FiveNotes)).result
  IN /\ r.NotesScanned = 5 /\ r.NotesWithMatches = 2
     /\ r.NotesUpdated = 0 /\ r.FailedUpdates = <<>>

\* C1: in dry-run mode no UpdateNote call is ever started, no job is queued
\* and no worker exists, and the Result that ProcessNotes returns has
\* NotesUpdated = 0 and FailedUpdates empty while NotesScanned,
\* NotesWithMatches and TotalMatches carry the totals of the scan.
C1_DryRunNeverWrites ==
  /\ FiveNotesExample
  /\ dryRun =>
       /\ \A i \in DOMAIN hist : hist[i].started = 0
       /\ jobs = <<>> /\ results = <<>>
       /\ \A w \in Workers : wk[w].pc = "none"
  /\ (dryRun /\ pc = "returned") =>
       /\ result.NotesUpdated = 0
       /\ result.FailedUpdates = <<>>
       /\ result.NotesScanned = Len(notes)
       /\ result.NotesWithMatches = Cardinality(MatchedIDs)
       /\ result.TotalMatches = SumMatches(Len(notes))

\* A dry run that has returned, over notes some of which match and some not.
C1_Witness ==
  /\ dryRun /\ pc = "returned"
  /\ result.NotesWithMatches >= 1
  /\ result.NotesScanned > result.NotesWithMatches

\* C2: in apply mode no document is handed to UpdateNote twice, and when
\* ProcessNotes returns every matched document has been handed to it exactly
\* once and no other document at all, whatever the writes returned.
C2_EachMatchedNoteUpdatedOnce ==
  /\ \A i \in DOMAIN hist : hist[i].started <= 1
  /\ (~dryRun /\ pc = "returned") =>
       \A i \in DOMAIN hist : hist[i].started = IF i \in MatchedIDs THEN 1 ELSE 0

\* One worker, two matched documents: the write of the first failed, and the
\* second was still attempted.
C2_Witness ==
  /\ ~dryRun /\ pc = "returned" /\ concurrency = 1
  /\ Len(notes) = 2
  /\ hist[1].outcome \notin {ErrNil, Pending}
  /\ hist[2].started = 1 /\ hist[2].outcome = ErrNil

\* The documents whose UpdateNote call returned nil, and those whose call
\* returned an error.
Succeeded == {i \in DOMAIN hist : hist[i].outcome = ErrNil}
Failed == {i \in DOMAIN hist : hist[i].outcome \notin {ErrNil, Pending}}

\* C3: when an apply-mode ProcessNotes returns, NotesUpdated is the number of
\* documents whose write succeeded, FailedUpdates has exactly one entry per
\* document whose write failed, with its ID, its title and the error the
\* write returned, and NotesUpdated + len(FailedUpdates) = NotesWithMatches.
C3_ResultCountsOutcomes ==
  (~dryRun /\ pc = "returned") =>
    /\ result.NotesUpdated = Cardinality(Succeeded)
    /\ Len(result.FailedUpdates) = Cardinality(Failed)
    /\ \A i \in Failed :
         \E k \in 1..Len(result.FailedUpdates) :
           /\ result.FailedUpdates[k] = [NoteID |-> notes[i].ID,
                                         NoteTitle |-> notes[i].Title,
                                         Error |-> hist[i].outcome]
           /\ \A l \in 1..Len(result.FailedUpdates) :
                result.FailedUpdates[l].NoteID = i => l = k
    /\ result.NotesUpdated + Len(result.FailedUpdates) = result.NotesWithMatches

\* An apply run that returned with one write succeeded and one failed.
C3_Witness ==
  /\ ~dryRun /\ pc = "returned"
  /\ result.NotesUpdated = 1
  /\ Len(result.FailedUpdates) = 1

\* ------------------------------------------------- retry wrapper claims

\* A retryable outcome of an attempt: a transport error or a 5xx response.
IsRetryableOutcome(o) == o.err # ErrNil \/ o.status >= 500

\* The error an attempt failed with.
AttemptError(o) ==
  IF o.err # ErrNil THEN o.err
  ELSE IF o.status = 500 THEN <<"server error: 500">> ELSE <<"server error: 503">>

\* The worker that is inside the UpdateNote call for note i, if there is one.
InCall(i) == {w \in Workers : wk[w].pc = "update" /\ wk[w].job.Note.ID = i}

\* C4: no UpdateNote call issues its request more than 3 times, and an
\* attempt that returns a non-5xx response, after k = 0, 1 or 2 retryable
\* failures, is the last one (the request was issued exactly k+1 times) and
\* its response is what doRequestWithRetry returns, without an error.
C4_RetryUntilResponse ==
  \A i \in DOMAIN hist :
    LET log == hist[i].log
    IN /\ Len(log) <= 3
       /\ \A j \in 1..Len(log) :
            ~IsRetryableOutcome(log[j]) =>
              /\ j = Len(log)
              /\ \A k \in 1..(j - 1) : IsRetryableOutcome(log[k])
              /\ \A w \in InCall(i) :
                   /\ wk[w].rpc = "returned"
                   /\ wk[w].ret = [kind |-> "resp", status |-> log[j].status, err |-> ErrNil]
              /\ (log[j].status = 200 /\ InCall(i) = {}) => hist[i].outcome = ErrNil

\* Two retryable failures, then a 200 on the third attempt, returned.
C4_Witness ==
  \E i \in DOMAIN hist : \E w \in InCall(i) :
    /\ Len(hist[i].log) = 3
    /\ hist[i].log[3].err = ErrNil /\ hist[i].log[3].status = 200
    /\ wk[w].rpc = "returned" /\ wk[w].ret.kind = "resp" /\ wk[w].ret.status = 200

\* A response that is an authentication or malformed-request failure.
IsClientFailure(o) == o.err = ErrNil /\ o.status # 200 /\ o.status < 500

\* C5: a 401, a 403 or any other non-5xx, non-200 response is never retried:
\* no attempt and no backoff wait follows it (it being the first attempt, the
\* request was issued exactly once and nothing was waited for), and
\* UpdateNote returns an error for the document.
C5_ClientFailureNotRetried ==
  \A i \in DOMAIN hist :
    LET log == hist[i].log
    IN \A j \in 1..Len(log) :
         IsClientFailure(log[j]) =>
           /\ j = Len(log)
           /\ hist[i].waits = j - 1
           /\ \A w \in InCall(i) :
                /\ wk[w].rpc = "returned"
                /\ UpdateNoteResult(wk[w].ret) # ErrNil
           /\ InCall(i) = {} => hist[i].outcome \notin {ErrNil, Pending}

\* A 401 on the first attempt; the call is over and returned an error.
C5_Witness ==
  \E i \in DOMAIN hist :
    /\ Len(hist[i].log) = 1 /\ hist[i].log[1].status = 401
    /\ hist[i].waits = 0
    /\ hist[i].outcome \notin {ErrNil, Pending}
    /\ pc = "returned"

\* C6: after 3 attempts that all failed with retryable errors,
\* doRequestWithRetry returns an error, never a response, that wraps the
\* error of the third attempt; UpdateNote returns it wrapped, and the Result
\* that ProcessNotes returns has the document in FailedUpdates with it.
C6_ExhaustedWrapsLastError ==
  \A i \in DOMAIN hist :
    LET log == hist[i].log
        exhausted == <<"request failed after 3 attempts">> \o AttemptError(log[3])
    IN (Len(log) = 3 /\ \A j \in 1..3 : IsRetryableOutcome(log[j])) =>
         /\ \A w \in InCall(i) :
              /\ wk[w].rpc \in {"loop", "returned"}
              /\ wk[w].rpc = "returned" =>
                   wk[w].ret = [kind |-> "err", status |-> 0, err |-> exhausted]
         /\ InCall(i) = {} =>
              hist[i].outcome = <<"failed to update note">> \o exhausted
         /\ pc = "returned" =>
              \E k \in 1..Len(result.FailedUpdates) :
                result.FailedUpdates[k] =
                  [NoteID |-> notes[i].ID, NoteTitle |-> notes[i].Title,
                   Error |-> <<"failed to update note">> \o exhausted]

\* Three failed attempts, the first a transport error and the last a 503,
\* and ProcessNotes has returned.
C6_Witness ==
  \E i \in DOMAIN hist :
    /\ Len(hist[i].log) = 3
    /\ hist[i].log[1].err # ErrNil
    /\ hist[i].log[3].err = ErrNil /\ hist[i].log[3].status = 503
    /\ pc = "returned"
    /\ Len(result.FailedUpdates) = 1

\* Every result of an UpdateNote call followed attempt by attempt is one the
\* single-step UpdateNote draws from, the context's errors only once it expired.
UpdateNoteErrsCoverRetry ==
  \A i \in DOMAIN hist :
    \/ hist[i].outcome = Pending
    \/ hist[i].outcome \in UpdateNoteErrs(FALSE)
    \/ cancelled /\ hist[i].outcome \in UpdateNoteErrs(TRUE)

\* ------------------------------------------------- the matcher on one text

\* Runes of the texts: 'a', 'A', U+0130 and U+023A.
TextRunes == {97, 65, 304, 570}

RECURSIVE RuneSeqs(_)
\* The rune sequences of length at most n over TextRunes.
RuneSeqs(n) ==
  IF n = 0 THEN {<<>>}
  ELSE LET shorter == RuneSeqs(n - 1)
       IN shorter \cup {Append(t, r) : t \in {u \in shorter : Len(u) = n - 1}, r \in TextRunes}

Texts == {Concat(rs) : rs \in RuneSeqs(MaxTextRunes)}

\* Patterns: "a", "A", "aa", "aA", U+0130, U+023A.  Config.Validate rejects
\* the empty search pattern before a matcher is built (part_002:217-219).
Patterns == {Concat(rs) : rs \in {<<97>>, <<65>>, <<97, 97>>, <<97, 65>>, <<304>>, <<570>>}}

\* Replacements: "", "b", "bb".
Replacements == {<<>>, <<98>>, <<98, 98>>}

MatcherInit ==
  /\ pattern \in Patterns
  /\ caseSensitive \in BOOLEAN
  /\ regex = NoRegex
  /\ replacement \in Replacements
  /\ dryRun = TRUE
  /\ concurrency = 1
  /\ delay = 0
  /\ run = NoRun
  /\ mText \in Texts
  /\ mpc = "start"
  /\ mFound = NoFound
  /\ mReplaced = NoText
  /\ mSecond = NoFound
  /\ preview = NoPreview
  /\ OrchestratorIdle

\* matcher.FindAllMatches(text), as the scan phase calls it (replacer.go:65).
MFind ==
  /\ mpc = "start"
  /\ mFound' = Matcher_FindAllMatches(mText)
  /\ mpc' = "found"
  /\ UNCHANGED <<run, cfgVars, oVars, mText, mReplaced, mSecond, preview>>

\* matcher.Replace(text, replacement), as a worker calls it (replacer.go:156).
\* Replace runs its own scan in case-insensitive mode, so it is applied to
\* every text, also to one on which the first scan panicked.
MReplace ==
  /\ mpc = "found"
  /\ mReplaced' = Matcher_Replace(mText, replacement)
  /\ mpc' = "replaced"
  /\ UNCHANGED <<run, cfgVars, oVars, mText, mFound, mSecond, preview>>

\* A second FindAllMatches pass, over the replaced text.
MRescan ==
  /\ mpc = "replaced"
  /\ mReplaced.status = "ok"
  /\ mSecond' = Matcher_FindAllMatches(mReplaced.text)
  /\ mpc' = "rescanned"
  /\ UNCHANGED <<run, cfgVars, oVars, mText, mFound, mReplaced, preview>>

MatcherNext == MFind \/ MReplace \/ MRescan

MatcherSpec == MatcherInit /\ [][MatcherNext]_vars

\* ------------------------------------------- NewMatcher, then one text

\* Bytes of the texts: 'a', 'A', 'c' and the newline.
RegexTextBytes == {97, 65, 99, 10}

RECURSIVE ByteSeqs(_)
\* The byte sequences of length at most n over RegexTextBytes.
ByteSeqs(n) ==
  IF n = 0 THEN {<<>>}
  ELSE LET shorter == ByteSeqs(n - 1)
       IN shorter \cup {Append(t, b) : t \in {u \in shorter : Len(u) = n - 1},
                                       b \in RegexTextBytes}

\* Patterns handed to NewMatcher: "", "a", "a(.)c", "a.c", "(a)(.)", and
\* "a(" and "a)", which do not compile as regular expressions.
RegexPatterns ==
  {<<>>, <<97>>, <<97, 40, 46, 41, 99>>, <<97, 46, 99>>, <<40, 97, 41, 40, 46, 41>>,
   <<97, 40>>, <<97, 41>>}

\* Replacements and templates: "$1", "${1}", "$1b", "b$2", "$$", "b".
Templates ==
  {<<36, 49>>, <<36, 123, 49, 125>>, <<36, 49, 98>>, <<98, 36, 50>>, <<36, 36>>, <<98>>}

\* The arguments of NewMatcher are held in the configuration; no matcher is
\* built yet.
NewMatcherInit ==
  /\ \E p \in RegexPatterns, isRegex \in BOOLEAN, cs \in BOOLEAN :
       run = [NoRun EXCEPT !.cfg.SearchPattern = p, !.cfg.IsRegex = isRegex,
                           !.cfg.CaseSensitive = cs]
  /\ pattern = <<>>
  /\ caseSensitive = FALSE
  /\ regex = NoRegex
  /\ replacement \in Templates
  /\ dryRun = TRUE
  /\ concurrency = 1
  /\ delay = 0
  /\ mText \in ByteSeqs(MaxTextRunes)
  /\ mpc = "new"
  /\ mFound = NoFound
  /\ mReplaced = NoText
  /\ mSecond = NoFound
  /\ preview = NoPreview
  /\ OrchestratorIdle

\* NewMatcher(pattern, isRegex, caseSensitive) (matcher.go:135-140): the
\* matcher, or no matcher and the error of regexp.Compile.
MNewMatcher ==
  /\ mpc = "new"
  /\ LET built == NewMatcher(run.cfg.SearchPattern, run.cfg.IsRegex, run.cfg.CaseSensitive)
     IN /\ pattern' = built.pattern
        /\ caseSensitive' = built.caseSensitive
        /\ regex' = built.regex
        /\ mpc' = IF built.err = ErrNil THEN "start" ELSE "invalid"
  /\ UNCHANGED <<run, replacement, dryRun, concurrency, delay, oVars, mText, mFound,
                 mReplaced, mSecond, preview>>

NewMatcherNext == MNewMatcher \/ MFind \/ MReplace \/ MRescan

NewMatcherSpec == NewMatcherInit /\ [][NewMatcherNext]_vars

\* ------------------------------------------------------- matcher claims

RECURSIVE Substituted(_, _, _, _, _)
\* text with the ranges of matches[i..] replaced by r, every byte outside
\* them kept, from offset pos on.
Substituted(text, matches, r, pos, i) ==
  IF i > Len(matches) THEN Slice(text, pos, Len(text))
  ELSE Slice(text, pos, matches[i].Start) \o r
         \o Substituted(text, matches, r, matches[i].End, i + 1)

RECURSIVE SumLenDelta(_, _, _)
\* Sum over matches[i..] of len(r) - (End - Start).
SumLenDelta(matches, r, i) ==
  IF i > Len(matches) THEN 0
  ELSE Len(r) - (matches[i].End - matches[i].Start) + SumLenDelta(matches, r, i + 1)

\* "Foo" on "foo FOO Foo" with "X", case-insensitive, gives "X X X".
FooExample ==
  Replace(<<70, 111, 111>>, FALSE,
          <<102, 111, 111, 32, 70, 79, 79, 32, 70, 111, 111>>, <<88>>)
    = [status |-> "ok", text |-> <<88, 32, 88, 32, 88>>]

\* The relation C7 states, for the text on which FindAllMatches and Replace ran.
ReplaceIsSubstitution ==
  /\ mReplaced.text = Substituted(mText, mFound.matches, replacement, 0, 1)
  /\ Len(mReplaced.text) = Len(mText) + SumLenDelta(mFound.matches, replacement, 1)

\* C7: for the literal matcher in both case modes, every text T and every
\* replacement R, FindAllMatches(T) and Replace(T, R) return, Replace(T, R) is T
\* with exactly the ranges [Start, End) of FindAllMatches(T) replaced by R and
\* every other byte kept in order, its length is len(T) plus the sum of
\* len(R) - (End - Start), and "Foo" on "foo FOO Foo" with "X" gives "X X X".
C7_ReplaceSubstitutesMatchRanges ==
  /\ FooExample
  /\ mpc \in {"replaced", "rescanned"} =>
       /\ mFound.status = "ok"
       /\ mReplaced.status = "ok"
       /\ ReplaceIsSubstitution

\* C8: in case-sensitive mode with a non-empty pattern P, every match of
\* FindAllMatches has Text = P = text[Start:End], End - Start = len(P), and
\* consecutive matches satisfy m_i.End <= m_{i+1}.Start.
C8_CaseSensitiveMatchesExactNonOverlapping ==
  (caseSensitive /\ mpc # "start") =>
    /\ mFound.status = "ok"
    /\ \A i \in 1..Len(mFound.matches) :
         LET m == mFound.matches[i]
         IN /\ m.Text = pattern
            /\ m.End - m.Start = Len(pattern)
            /\ m.Start >= 0 /\ m.End <= Len(mText)
            /\ Slice(mText, m.Start, m.End) = pattern
            /\ i < Len(mFound.matches) => m.End <= mFound.matches[i + 1].Start

\* A case-sensitive scan that returned two matches or more.
C8_Witness ==
  caseSensitive /\ mpc # "start" /\ mFound.status = "ok" /\ Len(mFound.matches) >= 2

\* C9: in case-insensitive mode FindAllMatches returns, for every text, matches
\* reported against the original text: 0 <= Start <= End <= len(text),
\* Text = text[Start:End] and lower(Text) = lower(pattern).
C9_CaseInsensitiveMatchesAgainstOriginal ==
  (~caseSensitive /\ mpc # "start") =>
    /\ mFound.status = "ok"
    /\ \A i \in 1..Len(mFound.matches) :
         LET m == mFound.matches[i]
         IN /\ 0 <= m.Start /\ m.Start <= m.End /\ m.End <= Len(mText)
            /\ m.Text = Slice(mText, m.Start, m.End)
            /\ ToLower(m.Text) = ToLower(pattern)

\* The bytes of s.
Bytes(s) == {s[i] : i \in 1..Len(s)}

\* C10, for a non-empty replacement that shares no byte with the pattern even
\* after case folding: a second FindAllMatches pass over Replace(T, R)
\* returns zero matches.
C10_SecondPassFindsNothing ==
  (/\ mpc = "rescanned"
   /\ replacement # <<>>
   /\ Bytes(ToLower(replacement)) \cap Bytes(ToLower(pattern)) = {}
   /\ Bytes(replacement) \cap Bytes(pattern) = {}) =>
    /\ mSecond.status = "ok"
    /\ mSecond.matches = <<>>

\* ------------------------------------------------- pacing and cancellation

\* C11: with a delay configured, every UpdateNote call that has returned,
\* with success or with an error, slept once for the delay before the worker
\* went back to the job queue.
C11_PausesAfterEveryWrite ==
  \A i \in DOMAIN hist :
    (delay > 0 /\ hist[i].outcome # Pending) => hist[i].slept = 1

\* C12: a worker that stands at the backoff select of doRequestWithRetry with
\* the context already expired leaves it only by returning ctx.Err(), never
\* towards another request attempt, the timer having fired or not.
C12_CancellationWinsBackoff ==
  [][\A w \in Workers :
       (/\ cancelled
        /\ wk[w].pc = "update" /\ wk[w].rpc = "loop"
        /\ wk[w].attempt > 0 /\ LoopRuns(wk[w].attempt)
        /\ wk'[w] # wk[w])
       => /\ wk'[w].rpc = "returned"
          /\ wk'[w].ret = [kind |-> "err", status |-> 0, err |-> ErrDeadline]]_vars

\* C13: no UpdateNote call is started, for a job taken from the queue, after
\* the context has expired.
C13_NoWriteStartedAfterCancel ==
  \A i \in DOMAIN hist : ~hist[i].late

\* ------------------------------------------------------- the worker pool

\* The worker goroutines that were started, and the notes whose UpdateNote
\* call is in flight.
Started == {w \in Workers : wk[w].pc # "none"}
InFlight == {i \in DOMAIN hist : hist[i].started > 0 /\ hist[i].outcome = Pending}

\* C14: from the start of the worker pool to the return of ProcessNotes,
\* exactly r.concurrency worker goroutines were started, however many notes
\* matched, and at most r.concurrency UpdateNote calls are in flight.
C14_PoolIsConcurrency ==
  /\ pc \in {"send", "collect"} =>
       /\ Cardinality(Started) = concurrency
       /\ wg <= concurrency
  /\ Cardinality(InFlight) <= concurrency
  /\ Cardinality({w \in Workers : wk[w].pc = "update"}) <= concurrency

\* Two workers and a single matched note, whose write is in flight while the
\* other worker stands idle at the queue.
C14_Witness ==
  /\ concurrency = 2
  /\ Len(result.MatchedNotes) = 1
  /\ Cardinality(InFlight) = 1
  /\ \E w \in Workers : wk[w].pc = "recv"

\* ------------------------------------------------------- regex claims

\* "a(.)c" on "a\nc" in one case mode: the matcher is built, FindAllMatches
\* gives the one match [0,3) with the whole text, group 1 is the newline at
\* [1,2), and Replace with "$1" gives the newline alone.
DotExample(cs) ==
  LET built == NewRegexMatcher(<<97, 40, 46, 41, 99>>, cs)
      text == <<97, 10, 99>>
      subs == FindAllSubmatchIndex(built.regex, text, 0, -1, <<>>)
  IN /\ built.err = ErrNil
     /\ RegexFindAllMatches(built.regex, text).matches
          = <<[Start |-> 0, End |-> 3, Text |-> text]>>
     /\ Len(subs) = 1
     /\ subs[1].caps[1] = [Start |-> 1, End |-> 2]
     /\ RegexReplace(built.regex, text, <<36, 49>>) = [status |-> "ok", text |-> <<10>>]

\* The bytes x and y are the same in the case mode asked for.
SameByte(x, y) ==
  IF run.cfg.CaseSensitive THEN x = y ELSE LowerASCII(x) = LowerASCII(y)

\* An 'a', any byte, a 'c' stand at offset p of the text.
DotHit(p) ==
  /\ p >= 0 /\ p + 3 <= Len(mText)
  /\ SameByte(mText[p + 1], 97)
  /\ SameByte(mText[p + 3], 99)

RECURSIVE MiddleKept(_, _, _, _)
\* text from offset pos on with every match of matches[i..] replaced by the
\* byte in its middle.
MiddleKept(text, matches, pos, i) ==
  IF i > Len(matches) THEN Slice(text, pos, Len(text))
  ELSE Slice(text, pos, matches[i].Start) \o <<text[matches[i].Start + 2]>>
         \o MiddleKept(text, matches, matches[i].End, i + 1)

\* C20: NewRegexMatcher builds every expression with dot-matches-newline, in
\* both case modes: every '.' of a built matcher matches the newline;
\* "a(.)c" on "a\nc" gives the one match [0,3) with the newline as group 1
\* and Replace with "$1" gives the newline back; on every text "a(.)c" and
\* "a.c" match exactly where an 'a', any one byte (the newline too) and a 'c'
\* stand, leftmost first without overlap, and Replace of "a(.)c" with "$1" or
\* "${1}" puts the byte between 'a' and 'c' in the place of each match.
C20_DotMatchesNewline ==
  /\ DotExample(TRUE) /\ DotExample(FALSE)
  /\ (mpc \in {"start", "found", "replaced", "rescanned"} /\ run.cfg.IsRegex) =>
       /\ regex # NoRegex
       /\ \A k \in 1..Len(regex.atoms) :
            regex.atoms[k].kind = "dot" => regex.atoms[k].dotall
  /\ (/\ mpc \in {"found", "replaced", "rescanned"}
      /\ run.cfg.IsRegex
      /\ run.cfg.SearchPattern \in {<<97, 40, 46, 41, 99>>, <<97, 46, 99>>}) =>
       /\ mFound.status = "ok"
       /\ \A i \in 1..Len(mFound.matches) :
            LET m == mFound.matches[i]
            IN /\ DotHit(m.Start)
               /\ m.End = m.Start + 3
               /\ m.Text = Slice(mText, m.Start, m.End)
               /\ i < Len(mFound.matches) => m.End <= mFound.matches[i + 1].Start
       /\ \A p \in 0..Len(mText) :
            DotHit(p) => \E i \in 1..Len(mFound.matches) :
                           /\ mFound.matches[i].Start <= p
                           /\ p < mFound.matches[i].End
  /\ (/\ mpc \in {"replaced", "rescanned"}
      /\ run.cfg.IsRegex
      /\ run.cfg.SearchPattern = <<97, 40, 46, 41, 99>>
      /\ replacement \in {<<36, 49>>, <<36, 123, 49, 125>>}) =>
       /\ mReplaced.status = "ok"
       /\ mReplaced.text = MiddleKept(mText, mFound.matches, 0, 1)

\* "a(.)c" built case-insensitively, "a\nc" scanned and replaced with "$1":
\* the newline alone is left.
C20_Witness ==
  /\ run.cfg.IsRegex /\ ~run.cfg.CaseSensitive
  /\ run.cfg.SearchPattern = <<97, 40, 46, 41, 99>>
  /\ mText = <<97, 10, 99>>
  /\ replacement = <<36, 49>>
  /\ mpc = "replaced"
  /\ Len(mFound.matches) = 1 /\ mFound.matches[1].Text = mText
  /\ mReplaced.text = <<10>>

\* ------------------------------------------------- construction claims

\* C16: NewMatcher called for a literal matcher with the empty pattern yields
\* no matcher: the construction is rejected.
C16_EmptyPatternRejected ==
  (mpc # "new" /\ ~run.cfg.IsRegex /\ run.cfg.SearchPattern = <<>>) => mpc = "invalid"

\* ------------------------------------------------------------- run claims

\* Validate on a configuration that is valid but for its concurrency c.
ValidateConcurrency(c) == Validate([NewConfig EXCEPT !.Token = "token",
                                                      !.SearchPattern = <<97>>,
                                                      !.Concurrency = c])

\* C15: Validate rejects every concurrency below 1 or above 20 and admits
\* 1..20; a run configured with such a concurrency ends at Validate with
\* status 1 and a configuration error, having sent no ping, fetched nothing
\* and never called ProcessNotes; and whenever the worker pool exists,
\* r.concurrency and the number of workers lie in 1..20.
C15_ConcurrencyOutOfRangeRejected ==
  /\ \A c \in -1..22 :
       ValidateConcurrency(c) = IF c < 1 \/ c > 20
                                  THEN <<"concurrency must be between 1 and 20">>
                                  ELSE ErrNil
  /\ (/\ run.pc \notin {"off", "validate"}
      /\ (run.cfg.Concurrency < 1 \/ run.cfg.Concurrency > 20)) =>
       /\ run.pc = "exited"
       /\ run.exit = 1
       /\ Len(run.stderr) = 2 /\ run.stderr[1] = "Configuration error"
       /\ run.pings = 0 /\ run.fetches = 0
       /\ pc = "idle" /\ hist = <<>>
       /\ \A w \in Workers : wk[w].pc = "none"
  /\ (run.pc # "off" /\ pc \in {"send", "collect"}) =>
       /\ concurrency >= 1 /\ concurrency <= 20
       /\ Cardinality(Started) = concurrency

\* A run with a token, a pattern and concurrency 21 has ended at Validate.
C15_Witness ==
  /\ run.pc = "exited"
  /\ run.cfg.Concurrency = 21
  /\ run.stderr = <<"Configuration error", "concurrency must be between 1 and 20">>
  /\ run.exit = 1

\* The regular expression of the configuration does not compile.
InvalidPattern ==
  /\ run.cfg.IsRegex
  /\ NewRegexMatcher(run.cfg.SearchPattern, run.cfg.CaseSensitive).err # ErrNil

\* C17: in a run whose regex pattern does not compile (and whose
\* configuration Validate admits), no note is ever fetched, scanned or
\* updated, and the run ends with the invalid pattern reported.
C17_InvalidPatternBeforeAnyDocument ==
  (run.pc # "off" /\ Validate(run.cfg) = ErrNil /\ InvalidPattern) =>
    /\ run.fetches = 0
    /\ notes = <<>>
    /\ pc = "idle" /\ hist = <<>>
    /\ run.pc = "exited" =>
         \/ run.pings = 1 /\ run.stderr[1] = "Error"
         \/ run.stderr[1] = "Invalid pattern"

\* C18: a run that ends after an update failed exits with status 1 and its
\* summary reports the number of notes updated and one line for every failed
\* update, with the note's title, ID and error; a run that ends after
\* ProcessNotes found no match in any note, or after no note was fetched,
\* exits with status 0.
C18_FailuresReportedAndExitNonZero ==
  /\ (run.pc = "exited" /\ Failed # {}) =>
       /\ run.exit # 0
       /\ run.stdout.kind = "Successfully updated"
       /\ run.stdout.updated = Cardinality(Succeeded)
       /\ Len(run.stdout.failed) = Cardinality(Failed)
       /\ \A i \in Failed :
            \E k \in 1..Len(run.stdout.failed) :
              run.stdout.failed[k] = [NoteTitle |-> notes[i].Title, NoteID |-> notes[i].ID,
                                      Error |-> hist[i].outcome]
  /\ (run.pc = "exited" /\ pc = "returned" /\ MatchedIDs = {}) =>
       /\ run.exit = 0
       /\ run.stdout.kind = "No matches found in any notes"
  /\ (run.pc = "exited" /\ run.fetches = 1 /\ run.stderr = <<>> /\ notes = <<>>) =>
       run.exit = 0

\* A run that ended after one update succeeded and one failed.
C18_Witness ==
  /\ run.pc = "exited"
  /\ Cardinality(Succeeded) = 1 /\ Cardinality(Failed) = 1
  /\ run.exit = 1
  /\ run.stdout.updated = 1 /\ Len(run.stdout.failed) = 1

\* A run that ended after ProcessNotes scanned notes none of which matched.
C18_NoMatchRun ==
  /\ run.pc = "exited" /\ pc = "returned"
  /\ Len(notes) > 0 /\ MatchedIDs = {}
  /\ run.exit = 0

\* ------------------------------------------------------------ frame claims

\* An attempt whose request went out: Do was called with the context alive.
WentOut(o) == o.err # <<"Put: context deadline exceeded">>

\* C19: an UpdateNote call is started only for a note in which the matcher
\* found a match, and every request that goes out for it is addressed to the
\* note's ID and carries a JSON object whose only member is body, whole, with
\* the text matcher.Replace gives for the snapshot body; no title, parent ID
\* or timestamp is sent.
C19_WritesCarryOnlyTheNewBody ==
  \A i \in DOMAIN hist :
    /\ hist[i].started > 0 => i \in MatchedIDs
    /\ \A j \in 1..Len(hist[i].log) :
         LET sent == hist[i].log[j].sent
         IN WentOut(hist[i].log[j]) =>
              /\ sent.ID = notes[i].ID
              /\ DOMAIN sent.json = {"Body"}
              /\ sent.json.Body = Matcher_Replace(notes[i].Body, replacement).text
              /\ sent.unread = "all"

\* What C19 says of the first request of every call.
FirstRequestCarriesTheNewBody ==
  \A i \in DOMAIN hist :
    /\ hist[i].started > 0 => i \in MatchedIDs
    /\ \A j \in 1..Len(hist[i].log) :
         LET sent == hist[i].log[j].sent
         IN /\ sent.ID = notes[i].ID
            /\ DOMAIN sent.json = {"Body"}
            /\ sent.json.Body = Matcher_Replace(notes[i].Body, replacement).text
            /\ j = 1 => sent.unread = "all"

\* ------------------------------------------------------- backoff schedule

\* C21: in every UpdateNote call no wait precedes the first attempt, the
\* k-th wait, which precedes attempt k+1, lasts 500ms * 2^(k-1) (500ms, then
\* 1s), and the waits that ran to their end number one less than the attempts
\* made, one more being over only while the attempt it precedes is still to
\* be made.
C21_BackoffSchedule ==
  \A i \in DOMAIN hist :
    LET h == hist[i]
    IN /\ Len(h.waited) = h.waits
       /\ Len(h.waited) <= 2
       /\ \A k \in 1..Len(h.waited) : h.waited[k] = 500 * 2^(k - 1)
       /\ Len(h.log) = 0 => h.waits = 0
       /\ Len(h.log) > 0 =>
            \/ h.waits = Len(h.log) - 1
            \/ /\ h.waits = Len(h.log)
               /\ \E w \in InCall(i) : wk[w].rpc = "request"
       /\ h.outcome # Pending => h.waits = Len(h.log) - 1

\* A call that made its three attempts after waits of 500ms and 1s and has
\* returned.
C21_Witness ==
  \E i \in DOMAIN hist :
    /\ Len(hist[i].log) = 3
    /\ hist[i].waited = <<500, 1000>>
    /\ hist[i].outcome # Pending

\* ------------------------------------------------------- the scan policy

\* The pattern occurs in text at [p, q), in the case mode of the matcher.
OccursAt(text, p, q) ==
  IF caseSensitive THEN Slice(text, p, q) = pattern
  ELSE ToLower(Slice(text, p, q)) = ToLower(pattern)

\* An occurrence of the pattern starts at offset p of text.
OccursFrom(text, p) == \E q \in p..Len(text) : OccursAt(text, p, q)

\* The matches are what the greedy non-overlapping policy gives on text: each
\* is an occurrence starting at or after the end of the one before (at or
\* after 0 for the first), no occurrence starts between that end and its
\* start, and none starts at or after the end of the last.
Greedy(text, matches) ==
  /\ \A i \in 1..Len(matches) :
       LET from == IF i = 1 THEN 0 ELSE matches[i - 1].End
           m == matches[i]
       IN /\ from <= m.Start /\ m.Start < m.End /\ m.End <= Len(text)
          /\ OccursAt(text, m.Start, m.End)
          /\ m.Text = Slice(text, m.Start, m.End)
          /\ \A p \in from..(m.Start - 1) : ~OccursFrom(text, p)
  /\ LET last == IF matches = <<>> THEN 0 ELSE matches[Len(matches)].End
     IN \A p \in last..Len(text) : ~OccursFrom(text, p)

\* "aa" on "aaa" yields the single match [0,2).
OverlapExample ==
  FindAllMatches(<<97, 97>>, TRUE, <<97, 97, 97>>)
    = [status |-> "ok", matches |-> <<[Start |-> 0, End |-> 2, Text |-> <<97, 97>>]>>]

\* C22: literal FindAllMatches returns, for every pattern, case mode and
\* text, the matches of the greedy non-overlapping policy: each the leftmost
\* occurrence at or after the end of the previous one, none missed between
\* two reported matches or after the last, occurrences that start inside a
\* consumed match skipped; "aa" on "aaa" yields the single match [0,2).
C22_GreedyNonOverlappingScan ==
  /\ OverlapExample
  /\ mpc # "start" =>
       /\ mFound.status = "ok"
       /\ Greedy(mText, mFound.matches)

\* What C22 says holds of every case-sensitive scan.
GreedyWhenCaseSensitive ==
  /\ OverlapExample
  /\ (caseSensitive /\ mpc # "start") =>
       /\ mFound.status = "ok"
       /\ Greedy(mText, mFound.matches)

\* ... and of every case-insensitive scan of a text whose lower-case form has
\* its length.
GreedyWhenLowerKeepsOffsets ==
  (/\ ~caseSensitive /\ mpc # "start"
   /\ \A p \in 0..Len(mText) : Len(ToLower(Slice(mText, 0, p))) = p) =>
    /\ mFound.status = "ok"
    /\ Greedy(mText, mFound.matches)

\* ------------------------------------------------------- the scan results

RECURSIVE SumLens(_, _)
\* The sum of len(Matches) over MatchedNotes[1..k].
SumLens(matched, k) ==
  IF k = 0 THEN 0 ELSE Len(matched[k].Matches) + SumLens(matched, k - 1)

\* C23: once the scan phase is over, MatchedNotes holds exactly the input
\* notes with at least one match, each once, in input order, each with the
\* matches FindAllMatches gives for its body in left-to-right order;
\* NotesScanned is the number of input notes, NotesWithMatches is
\* len(MatchedNotes) and TotalMatches is the sum of len(Matches) over
\* MatchedNotes.
C23_ScanResults ==
  pc \notin {"idle", "scan", "panicked"} =>
    LET matched == result.MatchedNotes
    IN /\ result.NotesScanned = Len(notes)
       /\ result.NotesWithMatches = Len(matched)
       /\ result.TotalMatches = SumLens(matched, Len(matched))
       /\ {matched[k].Note.ID : k \in 1..Len(matched)} = MatchedIDs
       /\ \A k \in 1..Len(matched) :
            LET n == matched[k].Note
                ms == matched[k].Matches
            IN /\ n.ID \in 1..Len(notes) /\ n = notes[n.ID]
               /\ k < Len(matched) => n.ID < matched[k + 1].Note.ID
               /\ ms # <<>>
               /\ ms = Matcher_FindAllMatches(n.Body).matches
               /\ \A j \in 1..(Len(ms) - 1) : ms[j].Start < ms[j + 1].Start

\* A scan over two notes that both matched, with two matches each, is over.
C23_Witness ==
  /\ pc = "scanned"
  /\ Len(notes) = 2
  /\ Len(result.MatchedNotes) = 2
  /\ result.MatchedNotes[1].Note = notes[1]
  /\ result.MatchedNotes[2].Note = notes[2]
  /\ result.TotalMatches = 4

\* What the scan phase gives for the input notes.
Scanned == ScanLoop(notes, 1, NewResult(notes)).result

\* The jobs that stand in the queue or are held by a worker.
JobsOut ==
  {jobs[k] : k \in 1..Len(jobs)} \cup {wk[w].job : w \in {v \in Workers : wk[v].job # NoJob}}

\* C24: from the end of the scan phase to the return of ProcessNotes, under
\* every interleaving of the workers and every outcome of their writes,
\* NotesScanned, NotesWithMatches, TotalMatches and MatchedNotes, notes and
\* match sets, are what the scan phase gave, and every job queued or held by
\* a worker is an element of MatchedNotes as the scan built it.
C24_ApplyKeepsScanResults ==
  pc \in {"scanned", "send", "collect", "returned"} =>
    /\ result.NotesScanned = Scanned.NotesScanned
    /\ result.NotesWithMatches = Scanned.NotesWithMatches
    /\ result.TotalMatches = Scanned.TotalMatches
    /\ result.MatchedNotes = Scanned.MatchedNotes
    /\ \A job \in JobsOut :
         \E k \in 1..Len(Scanned.MatchedNotes) : job = Scanned.MatchedNotes[k]

\* An apply run over two matched notes has returned, one write having
\* succeeded and one failed.
C24_Witness ==
  /\ pc = "returned" /\ ~dryRun
  /\ Len(result.MatchedNotes) = 2
  /\ result.NotesUpdated = 1
  /\ Len(result.FailedUpdates) = 1

\* ------------------------------------------------------- the complete result

\* The notes whose UpdateNote call has returned.
Returned == {i \in DOMAIN hist : hist[i].outcome # Pending}

\* When an apply-mode ProcessNotes that started workers has returned, every
\* worker started has left its loop and none is left counted in the
\* WaitGroup, both channels are closed and empty, and every outcome a worker
\* produced has been folded.
CompleteAtReturn ==
  (~dryRun /\ pc = "returned" /\ result.MatchedNotes # <<>>) =>
    /\ \A w \in Workers : wk[w].pc \in {"none", "done"}
    /\ Cardinality({w \in Workers : wk[w].pc = "done"}) = concurrency
    /\ wg = 0
    /\ closer = "done"
    /\ jobsClosed /\ jobs = <<>>
    /\ resultsClosed /\ results = <<>>
    /\ result.NotesUpdated + Len(result.FailedUpdates) = Cardinality(Returned)
    /\ Cardinality(Returned) = Len(result.MatchedNotes)

\* From the end of the scan on, a step that changes the result is a step of
\* the collecting loop and of no worker: it takes one outcome from the
\* results channel and leaves every worker as it was.
OnlyCollectorWrites ==
  (pc \notin {"idle", "scan"} /\ result' # result) =>
    /\ pc = "collect" /\ pc' = "collect"
    /\ results # <<>> /\ results' = Tail(results)
    /\ result' = Fold(result, Head(results))
    /\ wk' = wk /\ wg' = wg

\* C25: the Result is exposed only once complete: when an apply-mode
\* ProcessNotes returns, every worker has terminated, the results channel is
\* closed and drained and no outcome a worker produced remains unfolded; and
\* the Result is written by the collecting loop alone, never by a worker.
C25_ResultExposedOnceComplete ==
  /\ []CompleteAtReturn
  /\ [][OnlyCollectorWrites]_vars

\* Two workers, two matched notes: the run has returned with both outcomes
\* folded.
C25_Witness ==
  /\ ~dryRun /\ pc = "returned" /\ concurrency = 2
  /\ Len(result.MatchedNotes) = 2
  /\ result.NotesUpdated + Len(result.FailedUpdates) = 2
  /\ \A w \in Workers : wk[w].pc = "done"
  /\ resultsClosed /\ results = <<>>

\* ------------------------------------------------------- preview renderer

\* The longest body previewed, in bytes.
MaxBodyLen == 6

RECURSIVE Split(_)
\* strings.Split(text, "\n") (part_002:321): the lines of text, one more than
\* it has newlines.
Split(text) ==
  LET nl == Index(text, <<10>>)
  IN IF nl < 0 THEN <<text>>
     ELSE <<Slice(text, 0, nl)>> \o Split(Slice(text, nl + 1, Len(text)))

RECURSIVE Join(_)
\* strings.Join(lines, "\n").
Join(lines) ==
  IF lines = <<>> THEN <<>>
  ELSE IF Len(lines) = 1 THEN lines[1]
  ELSE lines[1] \o <<10>> \o Join(Tail(lines))

\* lines[lo:hi] of a Go slice; out of range, the slice expression panics.
SliceLines(lines, lo, hi) ==
  IF 0 <= lo /\ lo <= hi /\ hi <= Len(lines)
    THEN [status |-> "ok", lines |-> SubSeq(lines, lo + 1, hi)]
    ELSE [status |-> "panic", lines |-> <<>>]

RECURSIVE FindMatchLine(_, _, _, _)
\* part_002:324-337: the first line i, counted from 0, with
\* currentPos <= match.Start < currentPos + len(line) + 1, and where it
\* begins; line 0 when the loop ends without one.
FindMatchLine(lines, i, currentPos, start) ==
  IF i >= Len(lines) THEN [matchLine |-> 0, matchLineStart |-> 0]
  ELSE LET lineLen == Len(lines[i + 1]) + 1
       IN IF currentPos <= start /\ start < currentPos + lineLen
            THEN [matchLine |-> i, matchLineStart |-> currentPos]
            ELSE FindMatchLine(lines, i + 1, currentPos + lineLen, start)

RECURSIVE FindMatchEndLine(_, _, _, _, _)
\* part_002:361-372: the first line i from matchLine on with
\* match.End <= currentPos + len(lines[i]) + 1; matchLine when the loop ends
\* without one.
FindMatchEndLine(lines, i, currentPos, matchEndPos, matchLine) ==
  IF i >= Len(lines) THEN matchLine
  ELSE LET lineLen == Len(lines[i + 1]) + 1
       IN IF matchEndPos <= currentPos + lineLen THEN i
          ELSE FindMatchEndLine(lines, i + 1, currentPos + lineLen, matchEndPos, matchLine)

\* part_002:269.
contextLines == 3

\* part_002:344-347: endLine := matchLine + contextLines + 1, clamped to
\* len(lines).
EndLine(matchLine, n) ==
  IF matchLine + contextLines + 1 > n THEN n ELSE matchLine + contextLines + 1

\* getContext(text, match) (part_002:320-380).
getContext(text, match) ==
  LET lines == Split(text)
      at == FindMatchLine(lines, 0, 0, match.Start)
      matchLine == at.matchLine
      startLine == IF matchLine - contextLines < 0 THEN 0 ELSE matchLine - contextLines
      matchEndLine == FindMatchEndLine(lines, matchLine, at.matchLineStart, match.End, matchLine)
      endLine == EndLine(matchLine, Len(lines))
      beforeLines == IF startLine < matchLine THEN SliceLines(lines, startLine, matchLine)
                     ELSE [status |-> "ok", lines |-> <<>>]
      joined == Join(beforeLines.lines)
      afterLines == IF matchEndLine + 1 < endLine
                      THEN SliceLines(lines, matchEndLine + 1, endLine)
                      ELSE [status |-> "ok", lines |-> <<>>]
  IN IF beforeLines.status # "ok" \/ afterLines.status # "ok"
       THEN [status |-> "panic", before |-> <<>>, matchText |-> <<>>, after |-> <<>>]
       ELSE [status |-> "ok",
             before |-> IF joined # <<>> THEN joined \o <<10>> ELSE <<>>,
             matchText |-> match.Text,
             after |-> IF matchEndLine + 1 < endLine
                         THEN <<10>> \o Join(afterLines.lines) ELSE <<>>]

\* PrintPreview(matchedNotes, replacement) (part_002:273-317): for every
\* matched note its title, ID and number of matches, and for every match its
\* number, the context before, the match, the replacement as given and the
\* context after.
PrintPreview(matchedNotes, repl) ==
  IF matchedNotes = <<>> THEN [kind |-> "No matches found", notes |-> <<>>]
  ELSE [kind |-> "preview",
        notes |-> [k \in 1..Len(matchedNotes) |->
          [Title |-> matchedNotes[k].Note.Title,
           ID |-> matchedNotes[k].Note.ID,
           Matches |-> Len(matchedNotes[k].Matches),
           shown |-> [i \in 1..Len(matchedNotes[k].Matches) |->
              LET c == getContext(matchedNotes[k].Note.Body, matchedNotes[k].Matches[i])
              IN [Match |-> i, status |-> c.status, before |-> c.before,
                  matchText |-> c.matchText, replacement |-> repl, after |-> c.after]]]]]

RECURSIVE Bodies(_)
\* The texts of at most n bytes over 'a', 'b' and the newline.
Bodies(n) ==
  IF n = 0 THEN {<<>>}
  ELSE LET shorter == Bodies(n - 1)
       IN shorter \cup {Append(t, b) : t \in {u \in shorter : Len(u) = n - 1},
                                        b \in {97, 98, 10}}

\* Patterns within a line and across a line break: "a", "a\nb", "b\na".
PreviewPatterns == {<<97>>, <<97, 10, 98>>, <<98, 10, 97>>}

PreviewInit ==
  /\ pattern \in PreviewPatterns
  /\ caseSensitive = TRUE
  /\ regex = NoRegex
  /\ replacement = <<120>>
  /\ dryRun = TRUE
  /\ concurrency = 1
  /\ delay = 0
  /\ run = NoRun
  /\ mText \in Bodies(MaxBodyLen)
  /\ mpc = "start"
  /\ mFound = NoFound
  /\ mReplaced = NoText
  /\ mSecond = NoFound
  /\ preview = NoPreview
  /\ OrchestratorIdle

\* replacer.PrintPreview(result.MatchedNotes, cfg.Replacement)
\* (replace.go:165), for the one note scanned, which is in MatchedNotes when
\* it has a match (replacer.go:66).
MPrintPreview ==
  /\ mpc = "found"
  /\ mFound.status = "ok"
  /\ preview' = PrintPreview(IF Len(mFound.matches) > 0
                               THEN <<[Note |-> Note(1, mText), Matches |-> mFound.matches]>>
                               ELSE <<>>,
                             replacement)
  /\ mpc' = "previewed"
  /\ UNCHANGED <<run, cfgVars, oVars, mText, mFound, mReplaced, mSecond>>

PreviewNext == MFind \/ MPrintPreview

PreviewSpec == PreviewInit /\ [][PreviewNext]_vars

\* The number of the line, counted from 0, that holds offset p of text: the
\* newlines before p.
LineOf(text, p) == Cardinality({q \in 1..p : text[q] = 10})

\* The number of lines of text.
NumLines(text) == LineOf(text, Len(text)) + 1

\* The offset at which line j of text begins, and the offset at which it
\* ends: that of its newline, or the end of text.
LineStart(text, j) ==
  IF j = 0 THEN 0
  ELSE CHOOSE p \in 1..Len(text) : text[p] = 10 /\ LineOf(text, p) = j
LineEnd(text, j) ==
  IF j = NumLines(text) - 1 THEN Len(text) ELSE LineStart(text, j + 1) - 1

\* min(3, n).
UpTo3(n) == IF n < 3 THEN n ELSE 3

\* The min(3, k) lines before the line that holds match.Start, each with its
\* newline.
LinesBefore(text, match) ==
  LET s == LineOf(text, match.Start)
  IN Slice(text, LineStart(text, s - UpTo3(s)), LineStart(text, s))

\* The min(3, r) lines after the line that holds the last byte of the match,
\* each with the newline it follows.
LinesAfter(text, match) ==
  LET e == LineOf(text, match.End - 1)
      r == NumLines(text) - 1 - e
  IN Slice(text, LineEnd(text, e), LineEnd(text, e + UpTo3(r)))

\* The match with number i of the note previewed, and what was shown for it.
Shown == preview.notes[1].shown
MatchShown(i) == mFound.matches[i]

\* C26: for every body and every match of it, a match that spans several
\* lines included, getContext stays inside the lines of the body, its
\* before-context is the min(3, k) lines just before the line that holds the
\* match's Start, k lines standing before that line, and its after-context
\* is the min(3, r) lines just after the line that holds the match's End,
\* r lines standing after that line.
C26_PreviewContext ==
  (mpc = "previewed" /\ preview.kind = "preview") =>
    \A i \in 1..Len(Shown) :
      /\ Shown[i].status = "ok"
      /\ Shown[i].before = LinesBefore(mText, MatchShown(i))
      /\ Shown[i].after = LinesAfter(mText, MatchShown(i))

\* What holds of getContext: it never indexes outside the lines; the
\* before-context is the lines claimed unless it is a single empty line,
\* which is left out; the after-context is the lines claimed for a match that
\* ends in the line where it starts, and for a match that spans s + 1 lines
\* it is the first min(3, r) - s of them, none for s >= 3.
ContextAsCoded ==
  (mpc = "previewed" /\ preview.kind = "preview") =>
    \A i \in 1..Len(Shown) :
      LET m == MatchShown(i)
          s == LineOf(mText, m.Start)
          e == LineOf(mText, m.End - 1)
          r == NumLines(mText) - 1 - e
          kept == IF UpTo3(r + e - s) - (e - s) > 0 THEN UpTo3(r + e - s) - (e - s) ELSE 0
      IN /\ Shown[i].status = "ok"
         /\ Shown[i].matchText = m.Text
         /\ Shown[i].before = IF LinesBefore(mText, m) = <<10>> THEN <<>>
                              ELSE LinesBefore(mText, m)
         /\ e = s => Shown[i].after = LinesAfter(mText, m)
         /\ Shown[i].after = Slice(mText, LineEnd(mText, e), LineEnd(mText, e + kept))

\* ------------------------------------------------------- the retried body

\* C27: every request attempt of one UpdateNote call, the second and the
\* third after a retryable failure included, transmits the same complete
\* JSON body, the one that holds the replaced text; no attempt that goes out
\* is made with an empty or partly consumed body.
C27_EveryAttemptSendsTheWholeBody ==
  \A i \in DOMAIN hist :
    \A j \in 1..Len(hist[i].log) :
      /\ WentOut(hist[i].log[j]) => hist[i].log[j].sent.unread = "all"
      /\ hist[i].log[j].sent.json = hist[i].log[1].sent.json
      /\ \A w \in InCall(i) : hist[i].log[j].sent.json = UpdateNoteRequest(wk[w].newBody)

\* What holds: every attempt is built from the same JSON data, and the first
\* attempt of every call has all of it to send.
FirstAttemptSendsTheWholeBody ==
  \A i \in DOMAIN hist :
    \A j \in 1..Len(hist[i].log) :
      /\ j = 1 => hist[i].log[j].sent.unread = "all"
      /\ hist[i].log[j].sent.json = hist[i].log[1].sent.json
      /\ \A w \in InCall(i) : hist[i].log[j].sent.json = UpdateNoteRequest(wk[w].newBody)

\* ------------------------------------------------------- no deadlock

\* The goroutine that called ProcessNotes.
Producer ==
  \/ Scan \/ DryRunReturn \/ NoMatchReturn \/ StartWorkers \/ SendJob \/ CloseJobs
  \/ Collect \/ CollectReturn

\* A worker goroutine; its UpdateNote call returns.
Worker(w) == WorkerRecv(w) \/ WorkerExit(w) \/ UpdateNote(w)

\* A step of a goroutine of the program; the passing of the deadline is none.
Goroutines == Producer \/ CloseResults \/ \E w \in Workers : Worker(w)

\* Spec with the Go scheduler's guarantee that goroutines which can run do
\* run: while a goroutine can take a step, one is taken.  The deadline of the
\* context is free to pass or not.
LiveSpec == Init /\ [][Next]_vars /\ WF_vars(Goroutines)

\* No send finds its channel full: jobs and results never hold more than the
\* totalNotes elements they were made for.
NoSendBlocks ==
  pc \in {"send", "collect", "returned"} =>
    /\ Len(jobs) <= Len(result.MatchedNotes)
    /\ Len(results) <= Len(result.MatchedNotes)

\* results is closed by the closing goroutine alone, after every worker has
\* gone, and the goroutine is then done: it is never closed a second time.
ClosedOnce ==
  resultsClosed' # resultsClosed =>
    /\ ~resultsClosed /\ resultsClosed'
    /\ closer = "wait" /\ closer' = "done"
    /\ wg = 0

\* The producer is not blocked: it stands before the scan, the start of the
\* workers or a send, none of which waits, or at the range over results with
\* an outcome to take or the channel closed.
ProducerRuns ==
  \/ pc \in {"scan", "scanned", "send"}
  \/ pc = "collect" /\ (results # <<>> \/ resultsClosed)

\* The closing goroutine is not blocked: every worker has run wg.Done().
CloserRuns == closer = "wait" /\ wg = 0

\* Worker w is not blocked: it is in its UpdateNote call, which returns, or
\* at the range over jobs with a job to take or the channel closed.
WorkerRuns(w) ==
  \/ wk[w].pc = "update"
  \/ wk[w].pc = "recv" /\ (jobs # <<>> \/ jobsClosed)

\* A goroutine can take a step.
CanRun == ProducerRuns \/ CloserRuns \/ \E w \in Workers : WorkerRuns(w)

\* ... which is when the model has a step of a goroutine to take.
CanRunIsEnabled == CanRun <=> ENABLED Goroutines

\* Every goroutine that exists has come to its end: ProcessNotes has
\* returned, no worker stands in its loop and the closing goroutine is done.
AllEnded ==
  /\ pc = "returned"
  /\ \A w \in Workers : wk[w].pc \in {"none", "done"}
  /\ closer \in {"none", "done"}

\* No state short of the end is one in which every goroutine is blocked.
NeverStuck == AllEnded \/ CanRun

RECURSIVE SumStarted(_)
\* The number of UpdateNote calls started for notes 1..i.
SumStarted(i) == IF i = 0 THEN 0 ELSE hist[i].started + SumStarted(i - 1)

\* How far ProcessNotes has come.
PcRank ==
  CASE pc \in {"idle", "scan"} -> 0
    [] pc = "scanned" -> 1
    [] pc = "send" -> 2
    [] pc = "collect" -> 3
    [] OTHER -> 4

\* The steps the goroutines have taken: those of the producer, the jobs
\* received, the calls returned, the outcomes folded, the workers gone and
\* the closing of results.
StepsTaken ==
  PcRank + nextJob + SumStarted(Len(hist)) + Cardinality(Returned)
    + result.NotesUpdated + Len(result.FailedUpdates)
    + Cardinality({w \in Workers : wk[w].pc = "done"})
    + (IF closer = "done" THEN 1 ELSE 0)

\* The most steps a run over these notes can take.
StepsLimit == 4 + (Len(notes) + 1) + 3 * Len(notes) + MaxConcurrency + 1

\* Every step is the passing of the deadline or a step forward of a
\* goroutine, and the steps forward are bounded: no run goes round for ever.
StepsForward ==
  /\ StepsTaken <= StepsLimit
  /\ StepsTaken' <= StepsLimit
  /\ \/ StepsTaken' > StepsTaken
     \/ cancelled' # cancelled /\ StepsTaken' = StepsTaken

\* C28: the apply phase cannot deadlock: with every UpdateNote call
\* returning, for every concurrency and every number of matched notes, no
\* send on jobs or results finds its channel full, results is closed exactly
\* once, no state before the end leaves every goroutine blocked, and every
\* step of a goroutine is one of a bounded number of steps forward; so, the
\* scheduler running a goroutine that can run, every worker leaves its loop
\* and ProcessNotes returns.
C28_ApplyPhaseCannotDeadlock ==
  /\ []NoSendBlocks
  /\ []NeverStuck
  /\ [][ClosedOnce]_vars
  /\ [][StepsForward]_vars

\* ... which is, at these bounds: ProcessNotes eventually returns with every
\* worker gone.
EventuallyReturns == <>AllEnded

\* One worker and two matched notes: the apply phase has ended, results
\* closed.
C28_Witness ==
  /\ pc = "returned" /\ ~dryRun
  /\ concurrency = 1 /\ Len(result.MatchedNotes) = 2
  /\ wk[1].pc = "done"
  /\ resultsClosed /\ closer = "done"

\* ------------------------------------------------------- scan termination

\* The scan of mText has returned its matches: they are no more than the
\* bytes of the text and each ends after the one before.
ScanEnded ==
  /\ mFound.status # "loop"
  /\ Len(mFound.matches) <= Len(mText)
  /\ \A i \in 1..Len(mFound.matches) :
       (IF i = 1 THEN 0 ELSE mFound.matches[i - 1].End) < mFound.matches[i].End

\* C29: FindAllMatches of a literal matcher ends for every pattern that
\* NewLiteralMatcher accepts and every text: the scan position moves forward
\* with every match, and the matches are at most len(text).
C29_LiteralScanTerminates ==
  (mpc \in {"found", "replaced", "rescanned"} /\ regex = NoRegex) => ScanEnded

\* What holds: the scan ends for every literal matcher whose pattern is not
\* empty.
ScanEndsUnlessPatternEmpty ==
  (mpc \in {"found", "replaced", "rescanned"} /\ regex = NoRegex /\ pattern # <<>>) => ScanEnded

====
